---- MODULE Spec2Model ----
(***************************************************************************)
(* Model of the download engine of teachable-backup.                       *)
(*                                                                         *)
(*   Spec    the DownloadManager of download_teachable_courses.py: the     *)
(*           queue, the worker pool, the transfer limiter and the          *)
(*           adaptive concurrency controller, with every transfer          *)
(*           abstracted to its suspension points.                          *)
(*   SpecDF  one task through _process_download and download_file of       *)
(*           download_teachable_courses.py, with the destination file,     *)
(*           the staging file and the server's answers in detail.          *)
(*                                                                         *)
(* asyncio runs one task at a time and switches tasks only at an await     *)
(* that suspends, so each action below is the code between two             *)
(* suspensions of one task.  Task.cancel() only requests a cancellation;   *)
(* the cancelled task sees CancelledError at its next step, which is a     *)
(* separate action here.                                                   *)
(***************************************************************************)
EXTENDS Integers, Sequences, FiniteSets, TLC

\* ---------------------------------------------------------------- bounds
MaxEffort == 5    \* a add_task calls, s stop() calls, g gather timeouts: 2a + s + g <= MaxEffort
MaxId == 1        \* attachment ids 0..MaxId (0 is every course's cover image)
MaxUnits == 3     \* file sizes are 0..MaxUnits half thresholds
MaxMargins == 2   \* sizes of 0..MaxMargins safety margins, below and above the threshold
MaxCallers == 3   \* concurrent get() calls of the API client
Max429 == 5       \* 429 responses the server gives in one run
MaxPages == 3     \* page requests of one get_all_courses call
MaxSections == 2  \* lecture sections of a course
MaxLectures == 2  \* lectures of a section
MaxNameLen == 3   \* characters of a file name given to safe_filename, and max_length
MaxBatch == 4     \* attachments of one course queued together
MaxTransfers == 5 \* attachments of one course queued with the refactored manager
MaxCourses == 2   \* courses whose cover image is queued

\* ------------------------------------------------------ program constants
MAX_CONCURRENT_DOWNLOADS == 3
num_consumers == 3
max_retries == 3
SMALL_FILE_THRESHOLD == 1048576
API_MAX_CONCURRENT_CALLS == 2
MAX_RETRIES == 5
DELAY_FACTOR == 3
INITIAL_DELAY == 20


\* Workers: main starts num_consumers of them, the first add_task starts
\* num_consumers more (ensure_consumers_running sees _started = False).
Workers == 1..(2 * num_consumers)
AttachmentIds == 0..MaxId

\* A DownloadTask, reduced to its attachment_id: the manager reads nothing
\* else of it.  process_course gives every cover image attachment_id 0.
TaskPool == {[id |-> a] : a \in AttachmentIds}
NoTask == [id |-> -1]

\* A download task runs _process_download up to its HEAD request as soon as
\* it is scheduled, so it is modelled from that suspension on.
NoTransfer == [pc |-> "none", cancel |-> FALSE, res |-> "none", sem |-> 0]
NewTransfer == [pc |-> "pd_head", cancel |-> FALSE, res |-> "none", sem |-> 0]
OffWorker == [pc |-> "off", task |-> NoTask, retry |-> 0, cancel |-> FALSE, woken |-> FALSE]
NewWorker == [pc |-> "new", task |-> NoTask, retry |-> 0, cancel |-> FALSE, woken |-> FALSE]
ExitWorker == [pc |-> "exit", task |-> NoTask, retry |-> 0, cancel |-> FALSE, woken |-> FALSE]
WaitWorker == [pc |-> "get", task |-> NoTask, retry |-> 0, cancel |-> FALSE, woken |-> FALSE]

VARIABLES
  max_concurrent,        \* DownloadManager.max_concurrent, the constructor's argument
  waiters,               \* Semaphore._waiters of the refactored manager: workers whose transfer is in acquire()
  mainpc,                \* main(): "init" before start_consumers, then "run"
  stop,                  \* DownloadManager._stop
  started,               \* DownloadManager._started
  consumers,             \* DownloadManager._consumers (worker ids)
  queue,                 \* DownloadManager.queue: items not yet taken
  unfinished,            \* Queue._unfinished_tasks
  current_concurrent,    \* DownloadManager.current_concurrent
  consecutive_successes, \* DownloadManager.consecutive_successes
  semCap,                \* capacity of every Semaphore created; the last is self.semaphore
  active_downloads,      \* attachment id -> worker whose transfer task is stored (0: no entry)
  failed_downloads,
  failed_tasks,          \* history: the tasks whose id was added to failed_downloads
  completed_downloads,
  failures,              \* attachment ids with an entry in the failures list
  worker,                \* per _consumer_worker task
  transfer,              \* per worker: its download_task (_process_download)
  addCount,              \* add_task calls so far
  stopCalls,             \* stop() calls so far
  \* --- one task through _process_download / download_file (SpecDF)
  pc_df,                 \* the suspension the call is at
  file_path,             \* the file under the final destination name
  partial_path,          \* the file under the '.partial' staging name
  file_path0,            \* file_path when the task started
  task_file_size,        \* task.file_size (NoSize: None)
  probe_size,            \* Content-Length of _process_download's HEAD (NoSize: absent)
  file_size,             \* download_file's file_size
  output_path,           \* which name download_file opened for writing
  body,                  \* bytes of the response body not yet received
  gets,                  \* data (GET) requests issued
  result,                \* how _process_download ended
  cause,                 \* the path download_file took to its return
  \* --- download_file of download_teachable_refactor.py (SpecRF)
  partial_path0,         \* partial_path when the call started
  start_pos,             \* download_file's start_pos
  range_start,           \* first byte of the Range header sent (NoSize: no header)
  supports_resume,       \* the HEAD answer carried Accept-Ranges
  verify_arg,            \* the verify argument of the call
  url_given,             \* the url argument is not empty
  sem_taken,             \* the call has entered `async with semaphore`
  heads,                 \* metadata (HEAD) requests issued
  \* --- DownloadManager.wait_for_downloads (SpecWait)
  waitpc,                \* where the call is: "idle", "join", "joined", "gather", "returned"
  gathered,              \* workers whose download task the pending gather() still awaits
  gatherTimeouts,        \* timeouts of the gather() wait so far
  \* --- TeachableAPIClient (SpecAPI, SpecPages)
  caller,                \* per get() call: where it is and what it has seen
  api_stop,              \* TeachableAPIClient._stop
  page,                  \* get_all_courses: page
  all_courses,           \* get_all_courses: all_courses
  fetched,               \* get_all_courses: what every page request so far was answered
  pages_pc,              \* get_all_courses: "idle", "fetch", "returned", "raised"
  \* --- TeachableAPIClient.get_course_content (SpecContent)
  content_pc,            \* "idle", "course", "lecture", "returned", "raised"
  sections,              \* course_data["sections"]: the lecture ids of every section
  section_ix,            \* the section the traversal is in
  lecture_ix,            \* the lecture of that section whose details are being fetched
  lectures_detailed,     \* per section: section["lectures_detailed"] (lecture ids)
  failed_lectures,       \* lectures whose get_lecture call raised, as <<section, lecture id>>
  \* --- safe_filename (SpecNames)
  name_pc,               \* "idle", "call", "done"
  filename,              \* the filename argument, a sequence of characters
  max_length,            \* the max_length argument
  safe_name,             \* the value returned
  \* --- process_course (SpecCourse)
  course_pc,             \* "idle", "course", "content", "done", "returned", "raised"
  course_arg,            \* the arguments of the call and what the server holds for them
  download_tasks,        \* the DownloadTasks handed to add_task, by attachment
  processed_data         \* the rows given to save_data_to_csv, by attachment

vars == <<max_concurrent, waiters, mainpc, stop, started, consumers, queue, unfinished, current_concurrent,
          consecutive_successes, semCap, active_downloads, failed_downloads, failed_tasks,
          completed_downloads, failures, worker, transfer, addCount, stopCalls,
          pc_df, file_path, partial_path, file_path0, task_file_size, probe_size,
          file_size, output_path, body, gets, result, cause,
          partial_path0, start_pos, range_start, supports_resume, verify_arg,
          url_given, sem_taken, heads,
          waitpc, gathered, gatherTimeouts,
          caller, api_stop, page, all_courses, fetched, pages_pc,
          content_pc, sections, section_ix, lecture_ix, lectures_detailed, failed_lectures,
          name_pc, filename, max_length, safe_name,
          course_pc, course_arg, download_tasks, processed_data>>

configVars == <<max_concurrent, waiters>>
ctrlVars == <<current_concurrent, consecutive_successes, semCap>>
setVars == <<failed_downloads, failed_tasks, completed_downloads, failures>>
envVars == <<mainpc, stop, started, consumers, addCount, stopCalls>>
waitVars == <<waitpc, gathered, gatherTimeouts>>
apiVars == <<caller, api_stop>>
pageVars == <<page, all_courses, fetched, pages_pc>>
contentVars == <<content_pc, sections, section_ix, lecture_ix, lectures_detailed,
                 failed_lectures>>
nameVars == <<name_pc, filename, max_length, safe_name>>
processVars == <<course_pc, course_arg, download_tasks, processed_data>>
courseVars == <<contentVars, nameVars, processVars>>
clientVars == <<apiVars, pageVars, courseVars>>
managerVars == <<configVars, envVars, ctrlVars, queue, unfinished, active_downloads, worker,
                 transfer, waitVars, clientVars>>
callVars == <<url_given, sem_taken, heads>>
resumeVars == <<partial_path0, start_pos, range_start, supports_resume, verify_arg, callVars>>
fileVars == <<configVars, pc_df, file_path, partial_path, file_path0, task_file_size, probe_size,
              file_size, output_path, body, gets, result, cause, resumeVars, clientVars>>
dfVars == <<pc_df, file_path, partial_path, file_path0, task_file_size, probe_size,
            file_size, output_path, body, gets, result, cause>>
downloadVars == <<configVars, envVars, ctrlVars, setVars, queue, unfinished, active_downloads, worker,
                  transfer, waitVars, dfVars, resumeVars>>

\* ---------------------------------------------------------------- helpers
\* what the environment has done so far, against MaxEffort
Effort == 2 * addCount + stopCalls + gatherTimeouts

RunningTransfer(t) == t.pc \in {"pd_head", "df_sem", "in_sec"}

\* task.done() is false for the task stored under id i
Live(act, tr, wk, i) ==
  /\ act[i] # 0
  /\ wk[act[i]].task.id = i
  /\ RunningTransfer(tr[act[i]])

\* get_status(): drop the entries whose task is done
PruneDone(act, tr, wk) ==
  [i \in AttachmentIds |-> IF Live(act, tr, wk, i) THEN act[i] ELSE 0]

\* number of transfers inside `async with semaphore` of download_file
InSection == {w \in Workers : transfer[w].pc = "in_sec"}
Holders(g) == {w \in Workers : transfer[w].pc = "in_sec" /\ transfer[w].sem = g}

\* self.semaphore = asyncio.Semaphore(cap): the new object becomes the
\* current one; transfers that took the old one keep it
NewSemaphore(caps, cap) == Append(caps, cap)

\* workers without a task that are in the same state and both inside or both
\* outside _consumers are interchangeable: the lowest id represents them
Lowest(w) ==
  \A v \in Workers : worker[v] = worker[w] /\ (v \in consumers <=> w \in consumers) => w <= v

\* restore_max_concurrency_if_ready: the condition
RestoreReadyOneSuccess(cur, cs) == cur < max_concurrent /\ cs >= 1
RestoreReady(cur, cs) == cur < max_concurrent /\ cs >= 2

\* reduce_concurrency_to_one: the new limit
ReducedLimit(cur) == 1

\* number of leading queue items whose id is in failed_downloads (each is
\* taken, marked done and skipped without a suspension)
RECURSIVE LeadingFailed(_, _)
LeadingFailed(q, fl) ==
  IF q = <<>> \/ Head(q).id \notin fl THEN 0
  ELSE 1 + LeadingFailed(Tail(q), fl)

\* Queue._wakeup_next: the waiting getters a put may wake.  Getters that are
\* interchangeable (same membership in _consumers) are represented by the
\* lowest id.
WakeableNone(wk) == {}
Wakeable(wk) == {w \in Workers : wk[w].pc = "get" /\ ~wk[w].woken /\ ~wk[w].cancel}
WakeChoices(wk) ==
  {w \in Wakeable(wk) :
     \A v \in Wakeable(wk) : (v \in consumers <=> w \in consumers) => w <= v}

\* ------------------------------------------------------------ worker loop
\* lines 896-901: create the download task for `task` and store it in
\* active_downloads, then suspend in `await download_task`
Attempt(w, task, retry, q, unf, act, wk, tr) ==
  /\ worker' = [wk EXCEPT ![w] = [pc |-> "await", task |-> task, retry |-> retry,
                                  cancel |-> FALSE, woken |-> FALSE]]
  /\ transfer' = [tr EXCEPT ![w] = NewTransfer]
  /\ active_downloads' = [act EXCEPT ![task.id] = w]
  /\ queue' = q
  /\ unfinished' = unf

\* the worker leaves its loop (line 879 false, or the break of line 982)
Leave(w, q, unf, act, wk, tr) ==
  /\ worker' = [wk EXCEPT ![w] = ExitWorker]
  /\ transfer' = [tr EXCEPT ![w] = NoTransfer]
  /\ active_downloads' = act
  /\ queue' = q
  /\ unfinished' = unf

\* lines 879-901 from the loop test to the next suspension: leave when _stop
\* is set; otherwise take items while the queue has some, skipping (and
\* marking done) those whose id is in failed_downloads; suspend in get() on
\* an empty queue or in `await download_task` for the first item kept.
LoopFrom(w, st, q, unf, act, wk, tr, fl) ==
  IF st THEN Leave(w, q, unf, act, wk, tr)
  ELSE LET k == LeadingFailed(q, fl)
           q2 == SubSeq(q, k + 1, Len(q))
       IN IF q2 = <<>>
          THEN /\ worker' = [wk EXCEPT ![w] = WaitWorker]
               /\ transfer' = [tr EXCEPT ![w] = NoTransfer]
               /\ active_downloads' = act
               /\ queue' = q2
               /\ unfinished' = unf - k
          ELSE Attempt(w, Head(q2), 0, Tail(q2), unf - k, act, wk, tr)

\* ------------------------------------------------------------------ main
\* main, line 1671: await download_manager.start_consumers().  The workers
\* run their first step at main's next suspension, before any task exists,
\* and suspend in queue.get().
MainStartConsumers ==
  /\ UNCHANGED <<fileVars, waitVars>>
  /\ mainpc = "init"
  /\ mainpc' = "run"
  /\ consumers' = 1..num_consumers
  /\ worker' = [w \in Workers |-> IF w \in 1..num_consumers THEN WaitWorker ELSE worker[w]]
  /\ UNCHANGED <<stop, started, queue, unfinished, ctrlVars, active_downloads, setVars,
                 transfer, addCount, stopCalls>>

\* add_task (lines 843-849) with ensure_consumers_running and start_consumers
AddTask(t) ==
  /\ UNCHANGED <<fileVars, waitVars>>
  /\ mainpc = "run"
  /\ Effort + 2 <= MaxEffort
  /\ addCount' = addCount + 1
  /\ IF stop
     THEN UNCHANGED <<started, consumers, queue, unfinished, worker>>
     ELSE LET fresh == (num_consumers + 1)..(2 * num_consumers)
              wk1 == IF started THEN worker
                     ELSE [w \in Workers |-> IF w \in fresh THEN NewWorker ELSE worker[w]]
          IN /\ started' = TRUE
             /\ consumers' = IF started THEN consumers ELSE fresh
             /\ queue' = Append(queue, t)
             /\ unfinished' = unfinished + 1
             /\ IF WakeChoices(wk1) = {}
                THEN worker' = wk1
                ELSE \E g \in WakeChoices(wk1) : worker' = [wk1 EXCEPT ![g].woken = TRUE]
  /\ UNCHANGED <<mainpc, stop, ctrlVars, active_downloads, setVars, transfer, stopCalls>>

\* stop (lines 825-835)
StopTargets ==
  {active_downloads[i] : i \in {j \in AttachmentIds : Live(active_downloads, transfer, worker, j)}}
AwaitingRunning(w) == worker[w].pc = "await" /\ RunningTransfer(transfer[w])
StopCall ==
  /\ mainpc = "run"
  /\ stopCalls' = stopCalls + 1
  /\ stop' = TRUE
  /\ LET viaConsumer == {w \in consumers : AwaitingRunning(w)}
         cancelled == StopTargets \cup viaConsumer
     IN /\ transfer' = [w \in Workers |->
                          IF w \in cancelled THEN [transfer[w] EXCEPT !.cancel = TRUE]
                          ELSE transfer[w]]
        /\ worker' = [w \in Workers |->
                        IF /\ w \in consumers
                           /\ worker[w].pc \in {"new", "get", "sleep", "await"}
                           /\ ~AwaitingRunning(w)
                        THEN [worker[w] EXCEPT !.cancel = TRUE]
                        ELSE worker[w]]
  /\ UNCHANGED <<mainpc, started, consumers, queue, unfinished, ctrlVars, active_downloads,
                 setVars, addCount>>

StopManager ==
  /\ UNCHANGED <<fileVars, waitVars>>
  /\ Effort + 1 <= MaxEffort
  /\ StopCall

\* --------------------------------------------------------------- workers
\* first step of a _consumer_worker task; a task cancelled before its first
\* step never runs its body.  Workers in the same state are interchangeable:
\* the lowest id goes first.
WorkerStart(w) ==
  /\ UNCHANGED <<fileVars, waitVars>>
  /\ worker[w].pc = "new"
  /\ Lowest(w)
  /\ IF worker[w].cancel
     THEN Leave(w, queue, unfinished, active_downloads, worker, transfer)
     ELSE LoopFrom(w, stop, queue, unfinished, active_downloads, worker, transfer,
                   failed_downloads)
  /\ UNCHANGED <<envVars, ctrlVars, setVars>>

\* a worker suspended in queue.get() (line 882) runs again: cancelled (outer
\* handler, lines 979-982, task is None), or woken by a put.  Queue.get hands
\* its wake-up on when it is cancelled after having been woken.
GetResume(w) ==
  /\ UNCHANGED <<fileVars, waitVars>>
  /\ worker[w].pc = "get"
  /\ worker[w].cancel \/ worker[w].woken
  /\ Lowest(w)
  /\ IF worker[w].cancel
     THEN LET wk0 == [worker EXCEPT ![w] = ExitWorker]
              pass == worker[w].woken /\ queue # <<>> /\ WakeChoices(wk0) # {}
          IN \E g \in (IF pass THEN WakeChoices(wk0) ELSE {w}) :
               Leave(w, queue, unfinished, active_downloads,
                     IF pass THEN [wk0 EXCEPT ![g].woken = TRUE] ELSE wk0,
                     transfer)
     ELSE IF queue = <<>>
     THEN /\ worker' = [worker EXCEPT ![w].woken = FALSE]
          /\ UNCHANGED <<queue, unfinished, active_downloads, transfer>>
     ELSE IF Head(queue).id \in failed_downloads
     THEN LoopFrom(w, stop, Tail(queue), unfinished - 1, active_downloads, worker, transfer,
                   failed_downloads)
     ELSE Attempt(w, Head(queue), 0, Tail(queue), unfinished, active_downloads, worker,
                  transfer)
  /\ UNCHANGED <<envVars, ctrlVars, setVars>>

\* `success = await download_task` returns or raises (lines 903-969)
WorkerAwaitDone(w) ==
  /\ UNCHANGED <<fileVars, waitVars>>
  /\ worker[w].pc = "await"
  /\ transfer[w].pc = "done"
  /\ LET t == worker[w].task
         res == IF worker[w].cancel THEN "cancelled" ELSE transfer[w].res
         tr1 == [transfer EXCEPT ![w] = NoTransfer]
         wk1 == [worker EXCEPT ![w].cancel = FALSE]
         pruned == PruneDone(active_downloads, tr1, wk1)
     IN CASE res = "ok" ->
               LET cs == consecutive_successes + 1
                   ready == RestoreReady(current_concurrent, cs)
               IN /\ completed_downloads' = completed_downloads \cup {t.id}
                  /\ consecutive_successes' = cs
                  /\ current_concurrent' = IF ready THEN max_concurrent ELSE current_concurrent
                  /\ semCap' = IF ready THEN NewSemaphore(semCap, max_concurrent) ELSE semCap
                  /\ UNCHANGED <<failed_tasks, failed_downloads, failures>>
                  /\ LoopFrom(w, stop, queue, unfinished - 1, pruned, wk1, tr1,
                              failed_downloads)
          [] res \in {"fail", "exc"} ->
               /\ failed_downloads' = failed_downloads \cup {t.id}
               /\ failed_tasks' = failed_tasks \cup {t}
               /\ UNCHANGED <<completed_downloads, failures, ctrlVars>>
               /\ LoopFrom(w, stop, queue, unfinished - 1, pruned, wk1, tr1,
                           failed_downloads \cup {t.id})
          [] res = "cancelled" ->
               LET r == worker[w].retry + 1
                   lim == ReducedLimit(current_concurrent)
               IN /\ current_concurrent' = lim
                  /\ semCap' = NewSemaphore(semCap, lim)
                  /\ consecutive_successes' = 0
                  /\ UNCHANGED <<completed_downloads, failures>>
                  /\ IF r < max_retries
                     THEN /\ worker' = [wk1 EXCEPT ![w].pc = "sleep", ![w].retry = r]
                          /\ transfer' = tr1
                          /\ UNCHANGED <<failed_tasks, failed_downloads, queue, unfinished, active_downloads>>
                     ELSE /\ failed_downloads' = failed_downloads \cup {t.id}
                          /\ failed_tasks' = failed_tasks \cup {t}
                          /\ LoopFrom(w, stop, queue, unfinished - 1, pruned, wk1, tr1,
                                      failed_downloads \cup {t.id})
  /\ UNCHANGED envVars

\* the retry wait `await asyncio.sleep(wait_time)` ends (lines 949-953); the
\* retry loop then creates the next download task
SleepDone(w) ==
  /\ UNCHANGED <<fileVars, waitVars>>
  /\ worker[w].pc = "sleep"
  /\ ~worker[w].cancel
  /\ Attempt(w, worker[w].task, worker[w].retry, queue, unfinished, active_downloads,
             worker, transfer)
  /\ UNCHANGED <<envVars, ctrlVars, setVars>>

\* the retry wait is cancelled (lines 951-953): next attempt immediately
SleepInterrupted(w) ==
  /\ UNCHANGED <<fileVars, waitVars>>
  /\ worker[w].pc = "sleep"
  /\ worker[w].cancel
  /\ Attempt(w, worker[w].task, worker[w].retry, queue, unfinished, active_downloads,
             worker, transfer)
  /\ UNCHANGED <<envVars, ctrlVars, setVars>>

\* ------------------------------------------------------------- transfers
TransferTo(w, t) ==
  /\ UNCHANGED <<fileVars, waitpc, gatherTimeouts>>
  /\ transfer' = [transfer EXCEPT ![w] = t]
  /\ gathered' = IF t.pc = "done" THEN gathered \ {w} ELSE gathered
  /\ UNCHANGED <<envVars, ctrlVars, queue, unfinished, active_downloads, worker>>

Finished(res) == [pc |-> "done", cancel |-> FALSE, res |-> res, sem |-> 0]

\* _process_download after its HEAD request (lines 993-1017): the request
\* raises, or the file exists with the reported size, or download_file is
\* called with the manager's current semaphore
ProbeDone(w, out) ==
  /\ transfer[w].pc = "pd_head"
  /\ ~transfer[w].cancel
  /\ CASE out = "exc" ->
            /\ TransferTo(w, Finished("exc"))
            /\ UNCHANGED setVars
       [] out = "skip" ->
            /\ TransferTo(w, Finished("ok"))
            /\ completed_downloads' = completed_downloads \cup {worker[w].task.id}
            /\ UNCHANGED <<failed_tasks, failed_downloads, failures>>
       [] out = "download" ->
            /\ TransferTo(w, [transfer[w] EXCEPT !.pc = "df_sem", !.sem = Len(semCap)])
            /\ UNCHANGED setVars

\* download_file line 609: `async with semaphore` gets a permit
Acquire(w) ==
  /\ transfer[w].pc = "df_sem"
  /\ ~transfer[w].cancel
  /\ Cardinality(Holders(transfer[w].sem)) < semCap[transfer[w].sem]
  /\ TransferTo(w, [transfer[w] EXCEPT !.pc = "in_sec"])
  /\ UNCHANGED setVars

\* download_file returns and _process_download records the outcome
\* (lines 1019-1043)
DownloadReturns(w, ok) ==
  /\ transfer[w].pc = "in_sec"
  /\ ~transfer[w].cancel
  /\ TransferTo(w, Finished(IF ok THEN "ok" ELSE "fail"))
  /\ IF ok
     THEN /\ completed_downloads' = completed_downloads \cup {worker[w].task.id}
          /\ UNCHANGED <<failed_tasks, failed_downloads, failures>>
     ELSE /\ failed_downloads' = failed_downloads \cup {worker[w].task.id}
          /\ failed_tasks' = failed_tasks \cup {worker[w].task}
          /\ failures' = failures \cup {worker[w].task.id}
          /\ UNCHANGED completed_downloads

\* the download task takes its CancelledError (lines 1045-1065)
TransferCancelled(w) ==
  /\ RunningTransfer(transfer[w])
  /\ transfer[w].cancel
  /\ TransferTo(w, Finished("cancelled"))
  /\ failures' = failures \cup {worker[w].task.id}
  /\ UNCHANGED <<failed_tasks, failed_downloads, completed_downloads>>

\* ------------------------------------------------------ wait_for_downloads
\* line 1117: the stored download tasks that are not done, by worker
ActiveTasks ==
  {active_downloads[i] : i \in {j \in AttachmentIds : Live(active_downloads, transfer, worker, j)}}

WaitStep(pc, g, act, tr) ==
  /\ waitpc' = pc
  /\ gatherTimeouts' = gatherTimeouts + (IF tr = transfer THEN 0 ELSE 1)
  /\ gathered' = g
  /\ active_downloads' = act
  /\ transfer' = tr
  /\ UNCHANGED <<fileVars, envVars, ctrlVars, setVars, queue, unfinished, worker>>

\* wait_for_downloads is called: queue.join() is started as a task and
\* awaited with a timeout (lines 1106-1110)
WaitCall ==
  /\ mainpc = "run"
  /\ waitpc = "idle"
  /\ WaitStep("join", {}, active_downloads, transfer)

\* queue.join() returns: it found _unfinished_tasks at 0, or task_done set
\* the _finished event; the waiting coroutine is resumed by a later callback
JoinReturns ==
  /\ waitpc = "join"
  /\ unfinished = 0
  /\ WaitStep("joined", {}, active_downloads, transfer)

\* the 30 s of line 1110 pass first: warning with get_status(), then the
\* loop starts the next join (lines 1111-1114)
JoinTimeout ==
  /\ waitpc = "join"
  /\ unfinished > 0
  /\ WaitStep("join", {}, PruneDone(active_downloads, transfer, worker), transfer)

\* the coroutine runs again after the join (lines 1116-1134): it gathers the
\* download tasks that are not done, or clears active_downloads and returns
WaiterCheck ==
  /\ waitpc = "joined"
  /\ IF ActiveTasks # {}
     THEN WaitStep("gather", ActiveTasks, active_downloads, transfer)
     ELSE WaitStep("returned", {}, [i \in AttachmentIds |-> 0], transfer)

\* every gathered download task is done: back to the top of the loop
GatherDone ==
  /\ waitpc = "gather"
  /\ gathered = {}
  /\ WaitStep("join", {}, active_downloads, transfer)

\* the 30 s of line 1122 pass first: wait_for cancels the gather() future,
\* which cancels every download task it still awaits, and waits for them
GatherTimeout ==
  /\ waitpc = "gather"
  /\ gathered # {}
  /\ Effort + 1 <= MaxEffort
  /\ \E w \in gathered : ~transfer[w].cancel
  /\ WaitStep("gather", gathered, active_downloads,
              [w \in Workers |-> IF w \in gathered THEN [transfer[w] EXCEPT !.cancel = TRUE]
                                 ELSE transfer[w]])

\* ------------------------------------- one task, files and server (SpecDF)
\* File sizes are multiples of half the small-file threshold.
Unit == SMALL_FILE_THRESHOLD \div 2
Sizes == {k * Unit : k \in 0..MaxUnits}
NoSize == -1
NoFile == [ex |-> FALSE, size |-> 0, gen |-> 0]
\* gen 0: content from before this run, gen 1: bytes written by this transfer
OldFile(n) == [ex |-> TRUE, size |-> n, gen |-> 0]
Created == [ex |-> TRUE, size |-> 0, gen |-> 1]
TaskId == 0

\* _process_download always calls download_file with verify=True (line 1016)
verify == TRUE

\* download_file line 681: small files are written straight to file_path
OutputPath(fs) == IF fs < SMALL_FILE_THRESHOLD THEN "final" ELSE "partial"

\* line 1002: the existing file is taken as complete
SkipExisting(ts, f) == f.ex /\ ts # NoSize /\ ts # 0 /\ f.size = ts

\* line 713: the size check is made for files of at least the threshold
Verified(fs) == fs >= SMALL_FILE_THRESHOLD

\* `if file_path.exists(): file_path.unlink()` (lines 625, 663, 676, 740)
Unlinked(f) == NoFile

\* _process_download records what download_file returned (lines 1019-1043)
DfReturn(ok, why) ==
  /\ pc_df' = "done"
  /\ result' = IF ok THEN "true" ELSE "false"
  /\ cause' = why
  /\ IF ok
     THEN /\ completed_downloads' = completed_downloads \cup {TaskId}
          /\ UNCHANGED <<failed_tasks, failed_downloads, failures>>
     ELSE /\ failed_downloads' = failed_downloads \cup {TaskId}
          /\ failed_tasks' = failed_tasks \cup {[id |-> TaskId]}
          /\ failures' = failures \cup {TaskId}
          /\ UNCHANGED completed_downloads

\* _process_download's HEAD request (lines 993-1017) answers with or without
\* a Content-Length; the existing file is compared with it; otherwise
\* download_file starts: it takes a permit and sends its own HEAD request
PdHead(cl) ==
  /\ pc_df = "pd_head"
  /\ probe_size' = cl
  /\ LET ts == IF cl # NoSize THEN cl ELSE task_file_size
     IN /\ task_file_size' = ts
        /\ IF SkipExisting(ts, file_path)
           THEN /\ pc_df' = "done"
                /\ result' = "true"
                /\ cause' = "skip"
                /\ completed_downloads' = completed_downloads \cup {TaskId}
           ELSE /\ pc_df' = "df_head"
                /\ UNCHANGED <<result, cause, completed_downloads>>
  /\ UNCHANGED <<file_path, partial_path, file_path0, file_size, output_path, body, gets,
                 failed_tasks, failed_downloads, failures, managerVars, resumeVars>>

\* the HEAD request of _process_download raises: the exception leaves
\* _process_download (it only handles CancelledError)
PdHeadRaises ==
  /\ pc_df = "pd_head"
  /\ pc_df' = "done"
  /\ result' = "exc"
  /\ cause' = "probe_exc"
  /\ UNCHANGED <<file_path, partial_path, file_path0, task_file_size, probe_size, file_size,
                 output_path, body, gets, setVars, managerVars, resumeVars>>

\* download_file's HEAD request (lines 614-648): 403, an exception, or
\* headers; for a small file the staging file is removed; then the GET
\* request is sent
DfHead(status, cl) ==
  /\ pc_df = "df_head"
  /\ IF status = 403
     THEN /\ file_path' = Unlinked(file_path)
          /\ DfReturn(FALSE, "head_403")
          /\ UNCHANGED <<partial_path, file_size, gets>>
     ELSE /\ file_size' = cl
          /\ partial_path' = IF cl < SMALL_FILE_THRESHOLD THEN NoFile ELSE partial_path
          /\ IF cl < SMALL_FILE_THRESHOLD /\ file_path.ex /\ ~verify
             THEN IF file_path.size = cl
                  THEN /\ DfReturn(TRUE, "small_verified")
                       /\ UNCHANGED <<file_path, gets>>
                  ELSE /\ file_path' = Unlinked(file_path)
                       /\ pc_df' = "df_get"
                       /\ gets' = gets + 1
                       /\ UNCHANGED <<result, cause, setVars>>
             ELSE /\ pc_df' = "df_get"
                  /\ gets' = gets + 1
                  /\ UNCHANGED <<file_path, result, cause, setVars>>
  /\ UNCHANGED <<file_path0, task_file_size, probe_size, output_path, body, managerVars, resumeVars>>

\* an await inside download_file raises an exception other than OSError
\* (lines 738-744): the final file is removed, the staging file kept
DfRaises ==
  /\ pc_df \in {"df_head", "df_get", "df_stream"}
  /\ file_path' = Unlinked(file_path)
  /\ DfReturn(FALSE, IF pc_df = "df_head" THEN "head_exc"
                     ELSE IF pc_df = "df_get" THEN "get_exc" ELSE "stream_exc")
  /\ UNCHANGED <<partial_path, file_path0, task_file_size, probe_size, file_size,
                 output_path, body, gets, managerVars, resumeVars>>

\* the GET request answers (lines 652-684): 403 or another status >= 400
\* removes the final file; otherwise the output file is opened with "wb"
\* and the body of n bytes starts to arrive
DfGet(status, n) ==
  /\ pc_df = "df_get"
  /\ IF status >= 400
     THEN /\ file_path' = Unlinked(file_path)
          /\ DfReturn(FALSE, IF status = 403 THEN "get_403" ELSE "get_4xx")
          /\ UNCHANGED <<partial_path, output_path, body>>
     ELSE /\ output_path' = OutputPath(file_size)
          /\ file_path' = IF OutputPath(file_size) = "final" THEN Created ELSE file_path
          /\ partial_path' = IF OutputPath(file_size) = "partial" THEN Created ELSE partial_path
          /\ body' = n
          /\ pc_df' = "df_stream"
          /\ UNCHANGED <<result, cause, setVars>>
  /\ UNCHANGED <<file_path0, task_file_size, probe_size, file_size, gets, managerVars, resumeVars>>

\* open() or write() raises OSError (lines 734-736): False, nothing removed
DfOSError ==
  /\ pc_df \in {"df_get", "df_stream"}
  /\ DfReturn(FALSE, "oserror")
  /\ UNCHANGED <<file_path, partial_path, file_path0, task_file_size, probe_size, file_size,
                 output_path, body, gets, managerVars, resumeVars>>

\* one chunk of the body is written (lines 694-698)
DfChunk(d) ==
  /\ pc_df = "df_stream"
  /\ body > 0
  /\ d \in {Unit, body}
  /\ d <= body
  /\ body' = body - d
  /\ IF output_path = "final"
     THEN /\ file_path' = [file_path EXCEPT !.size = @ + d]
          /\ UNCHANGED partial_path
     ELSE /\ partial_path' = [partial_path EXCEPT !.size = @ + d]
          /\ UNCHANGED file_path
  /\ UNCHANGED <<pc_df, file_path0, task_file_size, probe_size, file_size, output_path,
                 gets, result, cause, setVars, managerVars, resumeVars>>

\* the body has ended (lines 708-732): the size check and the rename for a
\* file of at least the threshold, success otherwise
DfStreamEnd ==
  /\ pc_df = "df_stream"
  /\ body = 0
  /\ IF Verified(file_size)
     THEN IF partial_path.size # file_size
          THEN /\ DfReturn(FALSE, "mismatch")
               /\ UNCHANGED <<file_path, partial_path>>
          ELSE /\ file_path' = partial_path
               /\ partial_path' = NoFile
               /\ DfReturn(TRUE, "ok")
     ELSE /\ DfReturn(TRUE, "ok")
          /\ UNCHANGED <<file_path, partial_path>>
  /\ UNCHANGED <<file_path0, task_file_size, probe_size, file_size, output_path, body,
                 gets, managerVars, resumeVars>>

\* the download task is cancelled at a suspension: CancelledError passes
\* download_file's handlers (it is no Exception) and _process_download
\* appends a "cancelled" entry and re-raises (lines 1045-1065)
DfCancelled ==
  /\ pc_df \in {"pd_head", "df_head", "df_get", "df_stream"}
  /\ pc_df' = "done"
  /\ result' = "cancelled"
  /\ cause' = IF pc_df = "df_stream" THEN "cancel_stream" ELSE "cancel"
  /\ failures' = failures \cup {TaskId}
  /\ UNCHANGED <<file_path, partial_path, file_path0, task_file_size, probe_size, file_size,
                 output_path, body, gets, failed_tasks, failed_downloads, completed_downloads, managerVars, resumeVars>>

\* ------------------- download_file of download_teachable_refactor.py (SpecRF)
RESUME_SAFETY_MARGIN == 1048576
SMALL_FILE_THRESHOLD_REFACTOR == 52428800
RfSizes == {k * RESUME_SAFETY_MARGIN : k \in 0..MaxMargins}
             \cup {SMALL_FILE_THRESHOLD_REFACTOR + k * RESUME_SAFETY_MARGIN : k \in 0..MaxMargins}

\* line 710: the text written for "403 Forbidden"
ErrorTextSize == 32
ErrorText == [ex |-> TRUE, size |-> ErrorTextSize, gen |-> 1]

Max0(n) == IF n > 0 THEN n ELSE 0

\* line 619
ResumeStartNoMargin(partial_size) == Max0(partial_size)
ResumeStart(partial_size) == Max0(partial_size - RESUME_SAFETY_MARGIN)

\* line 617: only a large remote file with more than the margin staged resumes
ResumeTaken(partial_size, fs) ==
  partial_size > RESUME_SAFETY_MARGIN /\ fs > SMALL_FILE_THRESHOLD_REFACTOR

RfReturn(ok, why) ==
  /\ pc_df' = "done"
  /\ result' = IF ok THEN "true" ELSE "false"
  /\ cause' = why

\* the GET request is sent with the Range header that start_pos gives
\* (lines 624-625 and 696-697)
RfSendGet(sp) ==
  /\ pc_df' = "rf_get"
  /\ range_start' = IF sp > 0 THEN sp ELSE NoSize
  /\ gets' = gets + 1
  /\ UNCHANGED <<result, cause>>

\* line 561: `if not url`
MissingUrlNever(given) == FALSE
MissingUrl(given) == ~given

\* lines 561-583: an empty url ends the call; an existing file ends the
\* unverified call; otherwise the semaphore is entered and the HEAD request
\* is sent when verifying or when a staging file exists
RfStart ==
  /\ pc_df = "rf_start"
  /\ IF MissingUrl(url_given)
     THEN /\ RfReturn(FALSE, "missing_url")
          /\ UNCHANGED <<range_start, gets, sem_taken, heads>>
     ELSE IF file_path.ex /\ ~verify_arg
     THEN /\ RfReturn(TRUE, "exists")
          /\ UNCHANGED <<range_start, gets, sem_taken, heads>>
     ELSE /\ sem_taken' = TRUE
          /\ IF verify_arg \/ partial_path.ex
             THEN /\ pc_df' = "rf_head"
                  /\ heads' = heads + 1
                  /\ UNCHANGED <<range_start, gets, result, cause>>
             ELSE /\ RfSendGet(start_pos)
                  /\ UNCHANGED heads
  /\ UNCHANGED <<file_path, partial_path, file_path0, task_file_size, probe_size, file_size,
                 output_path, body, partial_path0, start_pos, supports_resume, verify_arg,
                 url_given, setVars, managerVars>>

\* lines 584-693: the HEAD answer; the existing final file, then the staging
\* file are compared with its Content-Length
RfHead(accept, cl) ==
  /\ pc_df = "rf_head"
  /\ supports_resume' = accept
  /\ file_size' = cl
  /\ IF file_path.ex /\ file_path.size = cl
     THEN /\ partial_path' = Unlinked(partial_path)
          /\ RfReturn(TRUE, "verified")
          /\ UNCHANGED <<file_path, start_pos, range_start, gets>>
     ELSE IF file_path.ex /\ verify_arg
     THEN /\ RfReturn(FALSE, "verify_mismatch")
          /\ UNCHANGED <<file_path, partial_path, start_pos, range_start, gets>>
     ELSE IF ~partial_path.ex
     THEN /\ RfSendGet(start_pos)
          /\ UNCHANGED <<file_path, partial_path, start_pos>>
     ELSE IF partial_path.size = cl
     THEN /\ file_path' = partial_path
          /\ partial_path' = NoFile
          /\ RfReturn(TRUE, "partial_complete")
          /\ UNCHANGED <<start_pos, range_start, gets>>
     ELSE IF ResumeTaken(partial_path.size, cl)
     THEN /\ start_pos' = ResumeStart(partial_path.size)
          /\ partial_path' = [partial_path EXCEPT !.size = start_pos']
          /\ RfSendGet(start_pos')
          /\ UNCHANGED file_path
     ELSE /\ partial_path' = Unlinked(partial_path)
          /\ RfSendGet(start_pos)
          /\ UNCHANGED <<file_path, start_pos>>
  /\ UNCHANGED <<file_path0, task_file_size, probe_size, output_path, body, partial_path0,
                 verify_arg, callVars, setVars, managerVars>>

\* an await of download_file raises ClientError, TimeoutError or another
\* Exception (lines 764-784): False, no file is touched
RfRaises ==
  /\ pc_df \in {"rf_head", "rf_get", "rf_stream"}
  /\ RfReturn(FALSE, IF pc_df = "rf_head" THEN "head_exc"
                     ELSE IF pc_df = "rf_get" THEN "get_exc" ELSE "stream_exc")
  /\ UNCHANGED <<file_path, partial_path, file_path0, task_file_size, probe_size, file_size,
                 output_path, body, gets, resumeVars, setVars, managerVars>>

\* the GET answer (lines 625-645 and 697-717): a status >= 400 returns
\* False and 403 writes the error text under the final name; otherwise the
\* staging file is opened, "ab" after a resume and "wb" otherwise
RfGet(status, n) ==
  /\ pc_df = "rf_get"
  /\ IF status >= 400
     THEN /\ file_path' = IF status = 403 THEN ErrorText ELSE file_path
          /\ RfReturn(FALSE, IF status = 403 THEN "get_403" ELSE "get_4xx")
          /\ UNCHANGED <<partial_path, output_path, body>>
     ELSE /\ output_path' = "partial"
          /\ partial_path' = IF start_pos > 0 /\ partial_path.ex THEN partial_path ELSE Created
          /\ body' = n
          /\ pc_df' = "rf_stream"
          /\ UNCHANGED <<file_path, result, cause>>
  /\ UNCHANGED <<file_path0, task_file_size, probe_size, file_size, gets, resumeVars,
                 setVars, managerVars>>

\* open() or write() raises OSError (lines 688-690, 760-762)
RfOSError ==
  /\ pc_df \in {"rf_get", "rf_stream"}
  /\ RfReturn(FALSE, "oserror")
  /\ UNCHANGED <<file_path, partial_path, file_path0, task_file_size, probe_size, file_size,
                 output_path, body, gets, resumeVars, setVars, managerVars>>

\* one chunk is appended to the staging file (lines 652-657, 724-729)
RfChunk(d) ==
  /\ pc_df = "rf_stream"
  /\ body > 0
  /\ d \in {RESUME_SAFETY_MARGIN, body}
  /\ d <= body
  /\ body' = body - d
  /\ partial_path' = [partial_path EXCEPT !.size = @ + d, !.gen = 1]
  /\ UNCHANGED <<pc_df, file_path, file_path0, task_file_size, probe_size, file_size,
                 output_path, gets, result, cause, resumeVars, setVars, managerVars>>

\* the body has ended (lines 666-686, 738-758): the staging file's size is
\* compared with file_size and the file renamed when they are equal
RfStreamEnd ==
  /\ pc_df = "rf_stream"
  /\ body = 0
  /\ IF partial_path.size # file_size
     THEN /\ RfReturn(FALSE, "mismatch")
          /\ UNCHANGED <<file_path, partial_path>>
     ELSE /\ file_path' = partial_path
          /\ partial_path' = NoFile
          /\ RfReturn(TRUE, "ok")
  /\ UNCHANGED <<file_path0, task_file_size, probe_size, file_size, output_path, body,
                 gets, resumeVars, setVars, managerVars>>

\* the call is cancelled at an await: the handler of lines 662 and 734 only
\* covers the synchronous write, and CancelledError is no Exception, so it
\* leaves download_file
RfCancelled ==
  /\ pc_df \in {"rf_head", "rf_get", "rf_stream"}
  /\ pc_df' = "done"
  /\ result' = "cancelled"
  /\ cause' = IF pc_df = "rf_stream" THEN "cancel_stream" ELSE "cancel"
  /\ UNCHANGED <<file_path, partial_path, file_path0, task_file_size, probe_size, file_size,
                 output_path, body, gets, resumeVars, setVars, managerVars>>

\* ------------------------------------------------ TeachableAPIClient.get
ApiCallers == 1..MaxCallers
Statuses == {200, 404, 429}

\* values of the RateLimit-Reset header as character sequences; <<>> is the
\* default of headers.get("RateLimit-Reset", "")
ResetHeaders == {<<>>, <<"1", "2">>, <<"1", ".", "5">>}

Digits == {"0", "1", "2", "3", "4", "5", "6", "7", "8", "9"}
DigitValue(c) ==
  CASE c = "0" -> 0 [] c = "1" -> 1 [] c = "2" -> 2 [] c = "3" -> 3 [] c = "4" -> 4
    [] c = "5" -> 5 [] c = "6" -> 6 [] c = "7" -> 7 [] c = "8" -> 8 [] c = "9" -> 9

\* str.isdigit() and int() of line 340-341
IsDigit(h) == Len(h) > 0 /\ \A i \in 1..Len(h) : h[i] \in Digits
RECURSIVE ParseInt(_)
ParseInt(h) ==
  IF h = <<>> THEN 0
  ELSE 10 * ParseInt(SubSeq(h, 1, Len(h) - 1)) + DigitValue(h[Len(h)])

RECURSIVE Pow(_, _)
Pow(b, k) == IF k = 0 THEN 1 ELSE b * Pow(b, k - 1)

\* lines 340-345
DelayBackoffOnly(h, retries) == INITIAL_DELAY * Pow(DELAY_FACTOR, retries)
Delay(h, retries) ==
  IF IsDigit(h) THEN ParseInt(h) ELSE INITIAL_DELAY * Pow(DELAY_FACTOR, retries)

\* line 319: the loop condition
RetryAllowedOnceMore(retries) == retries <= MAX_RETRIES
RetryAllowed(retries) == retries < MAX_RETRIES

\* line 332: the status that is waited out and requested again
Retried(status) == status = 429

NoCall == [pc |-> "idle", retries |-> 0, requests |-> 0, status |-> 0,
           reset |-> <<>>, delay |-> 0, outcome |-> "none"]

\* calls inside `async with self.api_calls_semaphore` (lines 323-351)
ApiHolders == {c \in ApiCallers : caller[c].pc \in {"sent", "sleep"}}
\* requests sent and not yet answered
InFlight == {c \in ApiCallers : caller[c].pc = "sent"}

\* asyncio.Semaphore.acquire with `held` permits taken
PermitAlwaysFree(held) == TRUE
PermitFree(held) == held < API_MAX_CONCURRENT_CALLS

RECURSIVE Sum429(_)
Sum429(n) ==
  IF n = 0 THEN 0
  ELSE caller[n].retries + (IF caller[n].pc = "sleep" THEN 1 ELSE 0) + Sum429(n - 1)

ApiStep(c, r) ==
  /\ caller' = [caller EXCEPT ![c] = r]
  /\ UNCHANGED <<api_stop, downloadVars, pageVars, courseVars>>

ApiEnd(c, how) == ApiStep(c, [caller[c] EXCEPT !.pc = "done", !.outcome = how])

\* calls suspended in the acquire of api_calls_semaphore
ApiWaiters == {c \in ApiCallers : caller[c].pc = "sem"}

\* the top of the loop of _handle_rate_limit (lines 319-329): leave after
\* max_retries, raise when stopped; otherwise take a permit and send the
\* request without a suspension when a permit is free and no call waits for
\* one, else wait for a permit
LoopTop(c, r) ==
  IF ~RetryAllowed(r.retries) THEN ApiStep(c, [r EXCEPT !.pc = "done", !.outcome = "max_retries"])
  ELSE IF api_stop THEN ApiStep(c, [r EXCEPT !.pc = "done", !.outcome = "stopped"])
  ELSE IF PermitFree(Cardinality(ApiHolders \ {c})) /\ ApiWaiters = {}
  THEN ApiStep(c, [r EXCEPT !.pc = "sent", !.requests = @ + 1])
  ELSE ApiStep(c, [r EXCEPT !.pc = "sem"])

\* get() is called (lines 376-386)
ApiGet(c) ==
  /\ caller[c].pc = "idle"
  /\ \A d \in ApiCallers : d < c => caller[d].pc # "idle"
  /\ IF api_stop THEN ApiEnd(c, "stopped") ELSE LoopTop(c, caller[c])

\* the permit is taken and the request sent (lines 323-329)
ApiAcquire(c) ==
  /\ caller[c].pc = "sem"
  /\ PermitFree(Cardinality(ApiHolders))
  /\ ApiStep(c, [caller[c] EXCEPT !.pc = "sent", !.requests = @ + 1])

\* the response arrives (lines 329-351): a 429 is released and waited out
\* with the permit held; any other response is returned to get()
ApiResponse(c, status, h) ==
  /\ caller[c].pc = "sent"
  /\ IF Retried(status)
     THEN /\ Sum429(MaxCallers) < Max429
          /\ ApiStep(c, [caller[c] EXCEPT !.pc = "sleep", !.status = status, !.reset = h,
                                          !.delay = Delay(h, caller[c].retries)])
     ELSE /\ h = <<>>
          /\ ApiStep(c, [caller[c] EXCEPT !.pc = "read", !.status = status])

\* session.get raises ClientError or a timeout (lines 353-358, 408-413)
ApiRaises(c) ==
  /\ caller[c].pc = "sent"
  /\ ApiEnd(c, "client_error")

\* the wait of line 346 ends: retries += 1, the permit is given back and the
\* loop goes on
ApiSleepDone(c) ==
  /\ caller[c].pc = "sleep"
  /\ LoopTop(c, [caller[c] EXCEPT !.retries = @ + 1, !.reset = <<>>, !.delay = 0])

\* get() reads the body (lines 391-406): the text of an error response and
\* raise_for_status(), or the JSON data
ApiRead(c, ok) ==
  /\ caller[c].pc = "read"
  /\ ApiEnd(c, IF caller[c].status >= 400
               THEN (IF ok THEN "http_error" ELSE "client_error")
               ELSE (IF ok THEN "data" ELSE "parse_error"))

\* stop() (lines 307-311)
ApiStop ==
  /\ ~api_stop
  /\ api_stop' = TRUE
  /\ UNCHANGED <<caller, downloadVars, pageVars, courseVars>>

\* ------------------------------------------------- get_all_courses (415-458)
\* a "meta" field that the response does not carry
NoMeta == 0
MetaValues == {NoMeta} \cup (1..MaxPages)
\* the "courses" lists a response may carry
CourseLists == {<<>>, <<1>>, <<2, 1>>}
\* the ways in which get() raises
GetFailures == {"http_error", "client_error", "parse_error", "max_retries", "stopped"}

\* lines 452-453: meta.get("number_of_pages", 1) and meta.get("page", page)
TotalPages(meta_total) == IF meta_total = NoMeta THEN 1 ELSE meta_total
CurrentPage(meta_page, p) == IF meta_page = NoMeta THEN p ELSE meta_page

\* line 454
LastPageOnlyBeyond(cur, total) == cur > total
LastPage(cur, total) == cur >= total

PageStep(pc, p, all, log) ==
  /\ pages_pc' = pc
  /\ page' = p
  /\ all_courses' = all
  /\ fetched' = log
  /\ UNCHANGED <<downloadVars, apiVars, courseVars>>

\* the head of the loop (lines 424-428): return when stopped, otherwise
\* request page p
LoopHead(p, all, log) ==
  IF api_stop THEN PageStep("returned", p, all, log)
  ELSE PageStep("get", p, all, log)

\* get_all_courses is called (lines 419-428)
GetAllCourses ==
  /\ pages_pc = "idle"
  /\ LoopHead(1, <<>>, <<>>)

\* get() raises (lines 429-446): the loop is left
PageFails(how) ==
  /\ pages_pc = "get"
  /\ PageStep("returned", page, all_courses,
              Append(fetched, [page |-> page, how |-> how, courses |-> <<>>,
                               cur |-> NoMeta, total |-> NoMeta]))

\* get() returns data without a "courses" entry (line 448): KeyError
PageMalformed ==
  /\ pages_pc = "get"
  /\ PageStep("raised", page, all_courses,
              Append(fetched, [page |-> page, how |-> "malformed", courses |-> <<>>,
                               cur |-> NoMeta, total |-> NoMeta]))

\* get() returns a page (lines 448-456)
PageData(courses, meta_page, meta_total) ==
  /\ pages_pc = "get"
  /\ LET log == Append(fetched, [page |-> page, how |-> "data", courses |-> courses,
                                 cur |-> meta_page, total |-> meta_total])
         all == all_courses \o courses
     IN IF LastPage(CurrentPage(meta_page, page), TotalPages(meta_total))
        THEN PageStep("returned", page, all, log)
        ELSE /\ page < MaxPages
             /\ LoopHead(page + 1, all, log)

\* ---------------------------------------------- get_course_content (467-487)
\* a course: the lecture ids of each of its sections
LectureLists == {<<>>, <<1>>, <<2, 1>>}
Courses ==
  UNION {[1..n -> {ls \in LectureLists : Len(ls) <= MaxLectures}] : n \in 0..MaxSections}

\* what get() raises: ClientResponseError, ClientConnectionError and the
\* ClientError of line 361 are aiohttp.ClientError; the total timeout of line
\* 365 is asyncio.TimeoutError, a body that is not JSON is a ValueError of
\* response.json(), a stopped client is asyncio.CancelledError
FetchErrors == {"http_error", "connection_error", "max_retries", "timeout", "not_json",
                "stopped"}
\* lines 483, 503: except aiohttp.ClientError
IsClientError(how) == how \in {"http_error", "connection_error", "max_retries"}

ContentStep(pc, secs, si, li, det, fl) ==
  /\ content_pc' = pc
  /\ sections' = secs
  /\ section_ix' = si
  /\ lecture_ix' = li
  /\ lectures_detailed' = det
  /\ failed_lectures' = fl
  /\ UNCHANGED <<downloadVars, apiVars, pageVars, nameVars, processVars>>

\* the loops of lines 474-476 from section si, lecture li on: the next
\* get_lecture call, or the return of line 487.  A section that is entered
\* gets an empty lectures_detailed (line 475).
RECURSIVE Traverse(_, _, _, _, _)
Traverse(secs, si, li, det, fl) ==
  IF si > Len(secs) THEN ContentStep("returned", secs, si, li, det, fl)
  ELSE IF li > Len(secs[si])
       THEN Traverse(secs, si + 1, 1, IF si < Len(secs) THEN Append(det, <<>>) ELSE det, fl)
       ELSE ContentStep("lecture", secs, si, li, det, fl)

\* get_course_content is called (line 471)
GetCourseContent ==
  /\ content_pc = "idle"
  /\ ContentStep("course", sections, section_ix, lecture_ix, lectures_detailed,
                 failed_lectures)

\* get_course returns the course (lines 471-476)
CourseFetched(course) ==
  /\ content_pc = "course"
  /\ Traverse(course, 1, 1, IF Len(course) > 0 THEN <<<<>>>> ELSE <<>>, {})

\* get_course raises (line 471): nothing catches it here
CourseFails(how) ==
  /\ content_pc = "course"
  /\ ContentStep("raised", sections, section_ix, lecture_ix, lectures_detailed,
                 failed_lectures)

\* get_lecture returns the lecture (lines 478-482)
LectureFetched ==
  /\ content_pc = "lecture"
  /\ Traverse(sections, section_ix, lecture_ix + 1,
              [lectures_detailed EXCEPT ![section_ix] =
                 Append(@, sections[section_ix][lecture_ix])],
              failed_lectures)

\* get_lecture raises (lines 478, 483-486): a ClientError is logged and the
\* loop goes on, anything else leaves get_course_content
LectureFails(how) ==
  /\ content_pc = "lecture"
  /\ LET fl == failed_lectures \cup {<<section_ix, sections[section_ix][lecture_ix]>>}
     IN IF IsClientError(how)
        THEN Traverse(sections, section_ix, lecture_ix + 1, lectures_detailed, fl)
        ELSE ContentStep("raised", sections, section_ix, lecture_ix, lectures_detailed, fl)

\* ------------------------------------------------------ safe_filename (51-59)
\* the characters of line 55: \ / * ? : " > < |
BannedChars == {"\\", "/", "*", "?", ":", "\"", ">", "<", "|"}
NameChars == BannedChars \cup {" ", ",", "_", "-", "a"}

RECURSIVE Strings(_)
Strings(n) ==
  IF n = 0 THEN {<<>>}
  ELSE Strings(n - 1) \cup {Append(x, c) : x \in {y \in Strings(n - 1) : Len(y) = n - 1},
                                           c \in NameChars}

\* line 55: re.sub(r"[\\/*?:\"><|]", "", filename)
RemoveNone(x) == x
RemoveBanned(x) == SelectSeq(x, LAMBDA c : c \notin BannedChars)

\* lines 56-57: replace(" ", "_") and replace(",", "")
SpacesToUnderscores(x) == [i \in 1..Len(x) |-> IF x[i] = " " THEN "_" ELSE x[i]]
RemoveCommas(x) == SelectSeq(x, LAMBDA c : c # ",")

\* line 58: replace("_-_", "-"), occurrences taken from the left
RECURSIVE JoinDashes(_)
JoinDashes(x) ==
  IF Len(x) < 3 THEN x
  ELSE IF SubSeq(x, 1, 3) = <<"_", "-", "_">>
       THEN <<"-">> \o JoinDashes(SubSeq(x, 4, Len(x)))
       ELSE <<Head(x)>> \o JoinDashes(Tail(x))

\* line 59: filename[:max_length] for max_length >= 0
Truncate(x, n) == SubSeq(x, 1, IF n < Len(x) THEN n ELSE Len(x))

safe_filename(x, n) ==
  Truncate(JoinDashes(RemoveCommas(SpacesToUnderscores(RemoveBanned(x)))), n)

NamesIdle ==
  /\ name_pc = "idle"
  /\ filename = <<>>
  /\ max_length = 0
  /\ safe_name = <<>>

\* the call returns
SafeFilename ==
  /\ name_pc = "call"
  /\ name_pc' = "done"
  /\ safe_name' = safe_filename(filename, max_length)
  /\ UNCHANGED <<filename, max_length, downloadVars, apiVars, pageVars, contentVars, processVars>>

\* -------------------------------------------------- process_course (1136-1338)
\* an attachment of a lecture: its kind and whether it has a url
Video == [kind |-> "video", url |-> TRUE]
Pdf == [kind |-> "pdf", url |-> TRUE]
VideoNoUrl == [kind |-> "video", url |-> FALSE]
AttachmentLists == {<<>>, <<Video, Pdf>>, <<VideoNoUrl>>}
Kinds == {"video", "pdf"}

\* course_content["sections"]: per section its lectures_detailed, per
\* lecture its attachments.  Section si has id si.
RECURSIVE Tuples(_, _)
Tuples(S, n) ==
  IF n = 0 THEN {<<>>}
  ELSE Tuples(S, n - 1) \cup {Append(x, e) : x \in {y \in Tuples(S, n - 1) : Len(y) = n - 1},
                                             e \in S}
CourseTrees == Tuples(Tuples(AttachmentLists, MaxLectures), MaxSections)

\* module_id and lecture_id of the call: 0 and {} stand for None
NoModule == 0
ModuleIds == {NoModule, 1}
LectureIds == {{}, {<<1, 1>>}}

NoCourse == [tree |-> <<>>, image_url |-> FALSE, cover_exists |-> FALSE, csv_only |-> FALSE,
             valid_types |-> {}, module_id |-> NoModule, lecture_id |-> {}]

CourseIdle ==
  /\ course_pc = "idle"
  /\ course_arg = NoCourse
  /\ download_tasks = <<>>
  /\ processed_data = <<>>

\* lines 1244, 1251: the sections and lectures that are not skipped
SectionProcessed(arg, si) == arg.module_id = NoModule \/ si = arg.module_id
LectureProcessed(arg, si, li) ==
  /\ SectionProcessed(arg, si)
  /\ arg.lecture_id = {} \/ <<si, li>> \in arg.lecture_id

\* lines 1298, 1306, 1217: the attachments a DownloadTask is made for
QueuedWhateverKind(arg, a) == ~arg.csv_only /\ a.url
Queued(arg, a) == ~arg.csv_only /\ a.kind \in arg.valid_types /\ a.url

\* lines 1260-1317 for one lecture: the tasks and the rows it adds
LectureTasks(arg, si, li) ==
  LET as == arg.tree[si][li]
      ids == [ai \in 1..Len(as) |-> <<si, li, ai>>]
  IN SelectSeq(ids, LAMBDA id : Queued(arg, as[id[3]]))
LectureRows(arg, si, li) ==
  [ai \in 1..Len(arg.tree[si][li]) |-> <<si, li, ai>>]

\* lines 1243-1317: the loops over sections and lectures, from lecture li of
\* section si on
RECURSIVE TasksFrom(_, _, _)
TasksFrom(arg, si, li) ==
  IF si > Len(arg.tree) THEN <<>>
  ELSE IF li > Len(arg.tree[si]) THEN TasksFrom(arg, si + 1, 1)
  ELSE (IF LectureProcessed(arg, si, li) THEN LectureTasks(arg, si, li) ELSE <<>>)
         \o TasksFrom(arg, si, li + 1)
RECURSIVE RowsFrom(_, _, _)
RowsFrom(arg, si, li) ==
  IF si > Len(arg.tree) THEN <<>>
  ELSE IF li > Len(arg.tree[si]) THEN RowsFrom(arg, si + 1, 1)
  ELSE (IF LectureProcessed(arg, si, li) THEN LectureRows(arg, si, li) ELSE <<>>)
         \o RowsFrom(arg, si, li + 1)

\* the cover image task carries attachment_id 0 (line 1186)
CoverTask == <<0, 0, 0>>
\* lines 1170, 1179
CoverQueued(arg) == ~arg.csv_only /\ arg.image_url /\ ~arg.cover_exists

CourseStep(pc, tasks, rows) ==
  /\ course_pc' = pc
  /\ download_tasks' = tasks
  /\ processed_data' = rows
  /\ UNCHANGED <<course_arg, downloadVars, apiVars, pageVars, contentVars, nameVars>>

\* get_course returns (lines 1152-1206): the cover image task is made and
\* get_course_content is awaited
CourseInfoFetched ==
  /\ course_pc = "course"
  /\ CourseStep("content", IF CoverQueued(course_arg) THEN <<CoverTask>> ELSE <<>>, <<>>)

\* get_course or get_course_content raises (lines 1155-1157, 1207-1209): a
\* ClientError ends the call, anything else leaves it as an exception
CourseFetchFails(how) ==
  /\ course_pc \in {"course", "content"}
  /\ CourseStep(IF IsClientError(how) THEN "returned" ELSE "raised",
                download_tasks, processed_data)

\* get_course_content returns (lines 1211-1334): every section and lecture
\* is gone through without a suspension and the rows are saved
ContentProcessed ==
  /\ course_pc = "content"
  /\ CourseStep("done", download_tasks \o TasksFrom(course_arg, 1, 1),
                RowsFrom(course_arg, 1, 1))

\* rename_if_needed or the writing of a text or quiz file raises OSError
\* (lines 1219, 1269-1294, 1336-1338): the tasks made so far stay, no row is
\* saved
ContentRaises(n) ==
  /\ course_pc = "content"
  /\ n < Len(TasksFrom(course_arg, 1, 1))
  /\ CourseStep("raised", download_tasks \o SubSeq(TasksFrom(course_arg, 1, 1), 1, n), <<>>)

\* ------------------------------------------------------------------ spec
FilesIdle ==
  /\ pc_df = "idle"
  /\ file_path = NoFile
  /\ partial_path = NoFile
  /\ file_path0 = NoFile
  /\ task_file_size = NoSize
  /\ probe_size = NoSize
  /\ file_size = 0
  /\ output_path = "none"
  /\ body = 0
  /\ gets = 0
  /\ result = "none"
  /\ cause = "none"
  /\ partial_path0 = NoFile
  /\ start_pos = 0
  /\ range_start = NoSize
  /\ supports_resume = FALSE
  /\ verify_arg = FALSE
  /\ url_given = TRUE
  /\ sem_taken = FALSE
  /\ heads = 0

\* DownloadManager.__init__ (lines 790-803) and the idle values of what runs
\* beside the manager
ManagerStart ==
  /\ waiters = <<>>
  /\ mainpc = "init"
  /\ waitpc = "idle"
  /\ gathered = {}
  /\ gatherTimeouts = 0
  /\ caller = [c \in ApiCallers |-> NoCall]
  /\ api_stop = FALSE
  /\ page = 1
  /\ all_courses = <<>>
  /\ fetched = <<>>
  /\ pages_pc = "idle"
  /\ content_pc = "idle"
  /\ sections = <<>>
  /\ section_ix = 1
  /\ lecture_ix = 1
  /\ lectures_detailed = <<>>
  /\ failed_lectures = {}
  /\ stop = FALSE
  /\ started = FALSE
  /\ consumers = {}
  /\ queue = <<>>
  /\ unfinished = 0
  /\ current_concurrent = max_concurrent
  /\ consecutive_successes = 0
  /\ semCap = <<max_concurrent>>
  /\ active_downloads = [i \in AttachmentIds |-> 0]
  /\ failed_downloads = {}
  /\ failed_tasks = {}
  /\ completed_downloads = {}
  /\ failures = {}
  /\ worker = [w \in Workers |-> OffWorker]
  /\ transfer = [w \in Workers |-> NoTransfer]
  /\ addCount = 0
  /\ stopCalls = 0

\* main, line 1666: DownloadManager(MAX_CONCURRENT_DOWNLOADS)
ManagerInit ==
  /\ max_concurrent = MAX_CONCURRENT_DOWNLOADS
  /\ ManagerStart

Init == ManagerInit /\ FilesIdle /\ NamesIdle /\ CourseIdle

Next ==
  \/ MainStartConsumers
  \/ \E t \in TaskPool : AddTask(t)
  \/ StopManager
  \/ \E w \in Workers : WorkerStart(w)
  \/ \E w \in Workers : GetResume(w)
  \/ \E w \in Workers : WorkerAwaitDone(w)
  \/ \E w \in Workers : SleepDone(w)
  \/ \E w \in Workers : SleepInterrupted(w)
  \/ \E w \in Workers, out \in {"exc", "skip", "download"} : ProbeDone(w, out)
  \/ \E w \in Workers : Acquire(w)
  \/ \E w \in Workers, ok \in BOOLEAN : DownloadReturns(w, ok)
  \/ \E w \in Workers : TransferCancelled(w)

Spec == Init /\ [][Next]_vars

\* The manager constructed with any limit from 1 to the default.
InitLimit ==
  /\ max_concurrent \in 1..MAX_CONCURRENT_DOWNLOADS
  /\ ManagerStart
  /\ FilesIdle
  /\ NamesIdle
  /\ CourseIdle

SpecLimit == InitLimit /\ [][Next]_vars

\* The manager while wait_for_downloads runs and stop() is not called.
NextWait ==
  \/ MainStartConsumers
  \/ \E t \in TaskPool : AddTask(t)
  \/ \E w \in Workers : WorkerStart(w)
  \/ \E w \in Workers : GetResume(w)
  \/ \E w \in Workers : WorkerAwaitDone(w)
  \/ \E w \in Workers : SleepDone(w)
  \/ \E w \in Workers, out \in {"exc", "skip", "download"} : ProbeDone(w, out)
  \/ \E w \in Workers : Acquire(w)
  \/ \E w \in Workers, ok \in BOOLEAN : DownloadReturns(w, ok)
  \/ \E w \in Workers : TransferCancelled(w)
  \/ WaitCall
  \/ JoinReturns
  \/ JoinTimeout
  \/ WaiterCheck
  \/ GatherDone
  \/ GatherTimeout

SpecWait == Init /\ [][NextWait]_vars

WorkerStep(w) ==
  WorkerStart(w) \/ GetResume(w) \/ WorkerAwaitDone(w) \/ SleepDone(w)
TransferStep(w) ==
  \/ \E out \in {"exc", "skip", "download"} : ProbeDone(w, out)
  \/ \E ok \in BOOLEAN : DownloadReturns(w, ok)
  \/ TransferCancelled(w)

\* The event loop runs every task that is ready, every request of a transfer
\* is answered, and a permit that stays free is taken by a waiting transfer.
\* At most one of the three steps of a worker is enabled at a time.
Fairness ==
  \A w \in Workers : WF_vars(WorkerStep(w) \/ TransferStep(w) \/ Acquire(w))

SpecLive == SpecWait /\ Fairness

\* The add_task tasks process_course creates for the attachments of a
\* course (line 1239, from the loop of lines 1244-1307, which has no
\* suspension) run one after the other before any worker runs again: the
\* first starts the second pool, every put wakes the getter that has waited
\* longest.
RECURSIVE WakeFirst(_, _)
WakeFirst(wk, n) ==
  IF n = 0 \/ Wakeable(wk) = {} THEN wk
  ELSE LET g == CHOOSE w \in Wakeable(wk) : \A v \in Wakeable(wk) : w <= v
       IN WakeFirst([wk EXCEPT ![g].woken = TRUE], n - 1)

CourseTaskLists == {[i \in 1..MaxBatch |-> [id |-> i % (MaxId + 1)]]}

AddTasks(ts) ==
  /\ UNCHANGED <<fileVars, waitVars>>
  /\ mainpc = "run"
  /\ ~stop
  /\ addCount = 0
  /\ addCount' = Len(ts)
  /\ LET fresh == (num_consumers + 1)..(2 * num_consumers)
         wk1 == IF started THEN worker
                ELSE [w \in Workers |-> IF w \in fresh THEN NewWorker ELSE worker[w]]
     IN /\ started' = TRUE
        /\ consumers' = IF started THEN consumers ELSE fresh
        /\ queue' = queue \o ts
        /\ unfinished' = unfinished + Len(ts)
        /\ worker' = WakeFirst(wk1, Len(ts))
  /\ UNCHANGED <<mainpc, stop, ctrlVars, active_downloads, setVars, transfer, stopCalls>>

\* main's shutdown path (lines 1710-1715, 1743-1749): stop(), and without a
\* suspension in between wait_for_downloads up to its first await.  The
\* interruption is taken while no download task exists (before the first
\* task is taken, or between two tasks), so stop() cancels workers only.
Shutdown ==
  /\ ~stop
  /\ waitpc = "idle"
  /\ \A w \in Workers : transfer[w] = NoTransfer
  /\ StopCall
  /\ waitpc' = "join"
  /\ gathered' = {}
  /\ UNCHANGED <<gatherTimeouts, fileVars>>

\* the steps of worker w and of its download task when the server answers
\* the HEAD request with an error or with the size the file already has
ShutdownWorkerStep(w) ==
  \/ WorkerStart(w)
  \/ GetResume(w)
  \/ WorkerAwaitDone(w)
  \/ \E out \in {"exc", "skip"} : ProbeDone(w, out)

\* wait_for_downloads with no download task left behind by the workers
ShutdownWaiterStep == JoinReturns \/ JoinTimeout \/ WaiterCheck

NextShutdown ==
  \/ MainStartConsumers
  \/ \E ts \in CourseTaskLists : AddTasks(ts)
  \/ Shutdown
  \/ \E w \in Workers : ShutdownWorkerStep(w)
  \/ ShutdownWaiterStep

\* The event loop runs every task that is ready, the HEAD request is
\* answered, and the waiter runs when its join returns or its 30 s pass.
ShutdownFairness ==
  /\ \A w \in Workers : WF_vars(ShutdownWorkerStep(w))
  /\ WF_vars(ShutdownWaiterStep)

SpecShutdown == Init /\ [][NextShutdown]_vars /\ ShutdownFairness

\* The cover images of the courses (process_course, lines 1169-1197): every
\* task has attachment_id 0 and the cover_path of its own course.
CoverTasks == {[id |-> 0, course |-> c] : c \in 1..MaxCourses}

\* The manager working on the cover images, without an interruption.
NextCovers ==
  \/ MainStartConsumers
  \/ \E t \in CoverTasks : AddTask(t)
  \/ \E w \in Workers : WorkerStart(w)
  \/ \E w \in Workers : GetResume(w)
  \/ \E w \in Workers : WorkerAwaitDone(w)
  \/ \E w \in Workers, out \in {"exc", "skip", "download"} : ProbeDone(w, out)
  \/ \E w \in Workers : Acquire(w)
  \/ \E w \in Workers, ok \in BOOLEAN : DownloadReturns(w, ok)

SpecCovers == Init /\ [][NextCovers]_vars

\* ------------------------------------------------------------------------
\* DownloadManager of download_teachable_refactor.py: the workers and the one
\* Semaphore(MAX_CONCURRENT_DOWNLOADS), which _process_download enters
\* (line 962) and download_file enters again (line 577).  A transfer is
\*   "rp_start"  scheduled by create_task, not yet run
\*   "w_outer"   suspended in the acquire of line 962
\*   "g_outer"   given that permit by a release, not yet resumed
\*   "w_inner"   suspended in the acquire of line 577, holding one permit
\*   "g_inner"   given the second permit, not yet resumed
\*   "in_sec"    inside download_file's section, holding two permits
\* and its field sem is the number of permits it holds.
ScheduledTransfer == [pc |-> "rp_start", cancel |-> FALSE, res |-> "none", sem |-> 0]

RECURSIVE PermitsHeld(_, _)
PermitsHeld(tr, n) == IF n = 0 THEN 0 ELSE tr[n].sem + PermitsHeld(tr, n - 1)

\* Semaphore._value
SemValue(tr) == MAX_CONCURRENT_DOWNLOADS - PermitsHeld(tr, 2 * num_consumers)

\* Semaphore.locked(): no permit left, or a waiter that is not cancelled
SemLocked(tr, ws) == SemValue(tr) = 0 \/ ws # <<>>

\* Semaphore._wake_up_next: the first waiter whose future is not done is
\* given a permit
Ungranted(tr, ws) == {i \in 1..Len(ws) : tr[ws[i]].pc \in {"w_outer", "w_inner"}}
WakeUpNext(tr, ws) ==
  IF Ungranted(tr, ws) = {} THEN tr
  ELSE LET i == CHOOSE j \in Ungranted(tr, ws) : \A k \in Ungranted(tr, ws) : j <= k
           w == ws[i]
       IN [tr EXCEPT ![w].sem = @ + 1,
                     ![w].pc = IF @ = "w_outer" THEN "g_outer" ELSE "g_inner"]

\* Semaphore.release by the transfer of worker w
Release(tr, ws, w) == WakeUpNext([tr EXCEPT ![w].sem = @ - 1], ws)

RECURSIVE Without(_, _)
Without(ws, w) ==
  IF ws = <<>> THEN <<>>
  ELSE IF Head(ws) = w THEN Tail(ws)
  ELSE <<Head(ws)>> \o Without(Tail(ws), w)

\* the end of acquire() for a waiter that was given a permit (lines of
\* asyncio.Semaphore.acquire after `await fut`)
Resumed(tr, ws, w) ==
  LET ws1 == Without(ws, w)
  IN IF SemValue(tr) > 0 THEN WakeUpNext(tr, ws1) ELSE tr

\* download_file from its call to its first suspension, for a transfer that
\* holds the permit of _process_download: it returns True at once when the
\* file exists (lines 573-575), else it enters `async with semaphore`
EnterDownloadFile(tr, ws, w, exists) ==
  IF exists
  THEN [t |-> [Release(tr, ws, w) EXCEPT ![w].pc = "done", ![w].res = "ok"], ws |-> ws]
  ELSE IF SemLocked(tr, ws)
  THEN [t |-> [tr EXCEPT ![w].pc = "w_inner"], ws |-> Append(ws, w)]
  ELSE [t |-> [tr EXCEPT ![w].pc = "in_sec", ![w].sem = @ + 1], ws |-> ws]

RmTransferStep(next) ==
  /\ transfer' = next.t
  /\ waiters' = next.ws
  /\ UNCHANGED <<max_concurrent, dfVars, resumeVars, waitVars, clientVars, envVars, ctrlVars,
                 setVars, queue, unfinished, active_downloads, worker>>

\* a worker the event loop has been told to run: its first step, or its
\* resumption in queue.get()
Runnable(w) == worker[w].pc = "new" \/ (worker[w].pc = "get" /\ worker[w].woken)

\* the download task runs for the first time (lines 960-968); the event loop
\* runs what was scheduled first, so the workers made runnable before
\* create_task (line 902) have run
RpStart(w, exists) ==
  /\ transfer[w].pc = "rp_start"
  /\ \A v \in Workers : ~Runnable(v)
  /\ RmTransferStep(
       IF SemLocked(transfer, waiters)
       THEN [t |-> [transfer EXCEPT ![w].pc = "w_outer"], ws |-> Append(waiters, w)]
       ELSE EnterDownloadFile([transfer EXCEPT ![w].sem = @ + 1], waiters, w, exists))

\* a transfer that was given the permit of line 962 runs again
RpOuterResumed(w, exists) ==
  /\ transfer[w].pc = "g_outer"
  /\ RmTransferStep(
       EnterDownloadFile(Resumed(transfer, waiters, w), Without(waiters, w), w, exists))

\* a transfer that was given the permit of line 577 runs again
RpInnerResumed(w) ==
  /\ transfer[w].pc = "g_inner"
  /\ RmTransferStep(
       [t |-> [Resumed(transfer, waiters, w) EXCEPT ![w].pc = "in_sec"],
        ws |-> Without(waiters, w)])

\* download_file returns: both `async with` blocks are left
RpDownloadReturns(w, ok) ==
  /\ transfer[w].pc = "in_sec"
  /\ RmTransferStep(
       [t |-> [Release(Release(transfer, waiters, w), waiters, w) EXCEPT
                 ![w].pc = "done", ![w].res = IF ok THEN "ok" ELSE "fail"],
        ws |-> waiters])

\* lines 881-902 from the loop test to the next suspension
RmLoopFrom(w, q, unf, act, wk, tr, fl) ==
  LET k == LeadingFailed(q, fl)
      q2 == SubSeq(q, k + 1, Len(q))
  IN /\ queue' = IF q2 = <<>> THEN q2 ELSE Tail(q2)
     /\ unfinished' = unf - k
     /\ IF q2 = <<>>
        THEN /\ worker' = [wk EXCEPT ![w] = WaitWorker]
             /\ transfer' = [tr EXCEPT ![w] = NoTransfer]
             /\ active_downloads' = act
        ELSE /\ worker' = [wk EXCEPT ![w] = [pc |-> "await", task |-> Head(q2), retry |-> 0,
                                             cancel |-> FALSE, woken |-> FALSE]]
             /\ transfer' = [tr EXCEPT ![w] = ScheduledTransfer]
             /\ active_downloads' = [act EXCEPT ![Head(q2).id] = w]

RmWorkerStep ==
  UNCHANGED <<configVars, dfVars, resumeVars, waitVars, clientVars, envVars, ctrlVars,
              failures>>

\* a worker runs for the first time, or is resumed in queue.get() (line 884)
RmWorkerTakes(w) ==
  /\ Runnable(w)
  /\ Lowest(w)
  /\ RmWorkerStep
  /\ UNCHANGED <<failed_tasks, failed_downloads, completed_downloads>>
  /\ IF worker[w].pc = "get" /\ queue = <<>>
     THEN /\ worker' = [worker EXCEPT ![w].woken = FALSE]
          /\ UNCHANGED <<queue, unfinished, active_downloads, transfer>>
     ELSE RmLoopFrom(w, queue, unfinished, active_downloads, worker, transfer,
                     failed_downloads)

\* `success = await download_task` returns (lines 904-941): the outcome is
\* recorded, the entry of the id removed, the item marked done
RmWorkerAwaitDone(w) ==
  /\ worker[w].pc = "await"
  /\ transfer[w].pc = "done"
  /\ RmWorkerStep
  /\ LET id == worker[w].task.id
         ok == transfer[w].res = "ok"
         fl == IF ok THEN failed_downloads ELSE failed_downloads \cup {id}
         tr1 == [transfer EXCEPT ![w] = NoTransfer]
         act1 == [active_downloads EXCEPT ![id] = 0]
     IN /\ completed_downloads' = IF ok THEN completed_downloads \cup {id}
                                  ELSE completed_downloads
        /\ failed_downloads' = fl
        /\ failed_tasks' = IF ok THEN failed_tasks ELSE failed_tasks \cup {worker[w].task}
        /\ RmLoopFrom(w, queue, unfinished - 1,
                      [i \in AttachmentIds |->
                         IF act1[i] # 0 /\ transfer[act1[i]].pc # "done" /\ act1[i] # w
                         THEN act1[i] ELSE 0],
                      worker, tr1, fl)

\* The refactored manager working on the attachments of one course.
TransferTaskLists == {[i \in 1..MaxTransfers |-> [id |-> i % (MaxId + 1)]]}

NextRefactor ==
  \/ MainStartConsumers
  \/ \E ts \in TransferTaskLists : AddTasks(ts)
  \/ \E w \in Workers : RmWorkerTakes(w)
  \/ \E w \in Workers : RmWorkerAwaitDone(w)
  \/ \E w \in Workers, exists \in BOOLEAN : RpStart(w, exists)
  \/ \E w \in Workers, exists \in BOOLEAN : RpOuterResumed(w, exists)
  \/ \E w \in Workers : RpInnerResumed(w)
  \/ \E w \in Workers, ok \in BOOLEAN : RpDownloadReturns(w, ok)

SpecRefactor == Init /\ [][NextRefactor]_vars

\* Concurrent get() calls of one TeachableAPIClient, beside the download
\* manager working on one task.  The runs explored are those in which the
\* server answers 429 or the client is stopped before main starts the
\* workers, and those in which neither happens.
ApiQuiet == Sum429(MaxCallers) = 0 /\ ~api_stop
NextAPI ==
  \/ \E c \in ApiCallers : ApiGet(c)
  \/ \E c \in ApiCallers : ApiAcquire(c)
  \/ \E c \in ApiCallers, status \in Statuses, h \in ResetHeaders :
       (Retried(status) => mainpc = "init") /\ ApiResponse(c, status, h)
  \/ \E c \in ApiCallers : ApiRaises(c)
  \/ \E c \in ApiCallers : ApiSleepDone(c)
  \/ \E c \in ApiCallers, ok \in BOOLEAN : ApiRead(c, ok)
  \/ mainpc = "init" /\ ApiStop
  \/ ApiQuiet /\ MainStartConsumers
  \/ \E t \in TaskPool : ApiQuiet /\ addCount = 0 /\ AddTask(t)
  \/ \E w \in Workers : ApiQuiet /\ WorkerStart(w)
  \/ \E w \in Workers : ApiQuiet /\ GetResume(w)
  \/ \E w \in Workers : ApiQuiet /\ WorkerAwaitDone(w)
  \/ \E w \in Workers, out \in {"exc", "skip", "download"} : ApiQuiet /\ ProbeDone(w, out)
  \/ \E w \in Workers : ApiQuiet /\ Acquire(w)
  \/ \E w \in Workers, ok \in BOOLEAN : ApiQuiet /\ DownloadReturns(w, ok)

SpecAPI == Init /\ [][NextAPI]_vars

\* get_all_courses against a server that answers every page request with
\* any courses and any page counts, or not at all.
NextPages ==
  \/ GetAllCourses
  \/ \E how \in GetFailures : PageFails(how)
  \/ PageMalformed
  \/ \E courses \in CourseLists, meta_page \in MetaValues, meta_total \in MetaValues :
       PageData(courses, meta_page, meta_total)
  \/ ApiStop

SpecPages == Init /\ [][NextPages]_vars

\* get_course_content on any course, every fetch answered or failing.
NextContent ==
  \/ GetCourseContent
  \/ \E course \in Courses : CourseFetched(course)
  \/ \E how \in FetchErrors : CourseFails(how)
  \/ LectureFetched
  \/ \E how \in FetchErrors : LectureFails(how)

SpecContent == Init /\ [][NextContent]_vars

\* safe_filename on every name of at most MaxNameLen characters and every
\* max_length up to MaxNameLen.
InitNames ==
  /\ ManagerInit
  /\ FilesIdle
  /\ CourseIdle
  /\ name_pc = "call"
  /\ filename \in Strings(MaxNameLen)
  /\ max_length \in 0..MaxNameLen
  /\ safe_name = <<>>

NextNames == SafeFilename

SpecNames == InitNames /\ [][NextNames]_vars

\* process_course on every course tree, type filter and mode.
InitCourse ==
  /\ ManagerInit
  /\ FilesIdle
  /\ NamesIdle
  /\ course_pc = "course"
  /\ course_arg \in [tree : CourseTrees, image_url : BOOLEAN, cover_exists : BOOLEAN,
                     csv_only : BOOLEAN, valid_types : SUBSET Kinds,
                     module_id : ModuleIds, lecture_id : LectureIds]
  /\ download_tasks = <<>>
  /\ processed_data = <<>>

NextCourse ==
  \/ CourseInfoFetched
  \/ \E how \in FetchErrors : CourseFetchFails(how)
  \/ ContentProcessed
  \/ \E n \in 0..(MaxSections * MaxLectures * 2) : ContentRaises(n)

SpecCourse == InitCourse /\ [][NextCourse]_vars

\* A task whose destination and staging files are in any state a previous
\* run can have left them in, and whose task.file_size is None (a cover
\* image) or the attachment's media_duration (line 1233).
InitDF ==
  /\ ManagerInit
  /\ NamesIdle
  /\ CourseIdle
  /\ pc_df = "pd_head"
  /\ file_path \in {NoFile} \cup {OldFile(n) : n \in Sizes}
  /\ partial_path \in {NoFile} \cup {OldFile(n) : n \in Sizes}
  /\ file_path0 = file_path
  /\ task_file_size \in {NoSize, Unit}
  /\ probe_size = NoSize
  /\ file_size = 0
  /\ output_path = "none"
  /\ body = 0
  /\ gets = 0
  /\ result = "none"
  /\ cause = "none"
  /\ partial_path0 = NoFile
  /\ start_pos = 0
  /\ range_start = NoSize
  /\ supports_resume = FALSE
  /\ verify_arg = FALSE
  /\ url_given = TRUE
  /\ sem_taken = FALSE
  /\ heads = 0

NextDF ==
  \/ \E cl \in Sizes \cup {NoSize} : PdHead(cl)
  \/ PdHeadRaises
  \/ \E status \in {200, 403, 404}, cl \in Sizes : DfHead(status, cl)
  \/ DfRaises
  \/ \E status \in {200, 403, 404}, n \in Sizes : DfGet(status, n)
  \/ DfOSError
  \/ \E d \in Sizes : DfChunk(d)
  \/ DfStreamEnd
  \/ DfCancelled

SpecDF == InitDF /\ [][NextDF]_vars

\* ================================================================ claims
\* C1: for every attachment id, at no point in time are two transfers
\* (_process_download executions) active for the same id.
C1_AtMostOneTransferPerId ==
  \A v, w \in Workers :
    (v # w /\ RunningTransfer(transfer[v]) /\ RunningTransfer(transfer[w]))
      => worker[v].task.id # worker[w].task.id

\* C8: at every moment the number of transfers inside the limiter-guarded
\* section of download_file is at most current_concurrent.
C8_InSectionWithinCurrentLimit == Cardinality(InSection) <= current_concurrent

\* C9: a worker that handles a cancelled transfer sets current_concurrent to
\* 1 and consecutive_successes to 0; the limit is below the maximum only
\* while fewer than two successes have followed the last cancellation, and
\* it returns to the maximum exactly in the step that records the second.
CancellationHandled(w) ==
  /\ worker[w].pc = "await"
  /\ transfer[w].pc = "done"
  /\ worker[w].cancel \/ transfer[w].res = "cancelled"
  /\ transfer'[w] # transfer[w]
C9_ThrottleAndRestore ==
  [][ /\ \A w \in Workers :
           CancellationHandled(w) => current_concurrent' = 1 /\ consecutive_successes' = 0
      /\ current_concurrent' < max_concurrent => consecutive_successes' < 2
      /\ (current_concurrent < max_concurrent /\ current_concurrent' = max_concurrent)
           => (consecutive_successes = 1 /\ consecutive_successes' = 2)
    ]_vars
\* reached: a cancellation lowered the limit and two successes restored it
C9_Witness ==
  /\ Len(semCap) >= 3
  /\ semCap[Len(semCap) - 1] = 1
  /\ current_concurrent = max_concurrent
  /\ consecutive_successes = 2

\* C10: once stop() has been called no worker takes another item from the
\* queue and no new transfer attempt is started, and the transfers in flight
\* at the call are cancelled.
AttemptStarted(w) == transfer'[w].pc = "pd_head" /\ transfer[w].pc # "pd_head"
C10_StopEndsDequeuesAndAttempts ==
  [][ /\ stop => Len(queue') >= Len(queue)
      /\ stop => \A w \in Workers : ~AttemptStarted(w)
      /\ stopCalls' > stopCalls =>
           \A w \in Workers : RunningTransfer(transfer'[w]) => transfer'[w].cancel
    ]_vars

\* A call of the refactored download_file with either value of verify, the
\* final and the staging name each absent or holding a file of any size.
InitRF ==
  /\ ManagerInit
  /\ NamesIdle
  /\ CourseIdle
  /\ pc_df = "rf_start"
  /\ file_path \in {NoFile} \cup {OldFile(n) : n \in RfSizes}
  /\ partial_path \in {NoFile} \cup {OldFile(n) : n \in RfSizes}
  /\ file_path0 = file_path
  /\ partial_path0 = partial_path
  /\ verify_arg \in BOOLEAN
  /\ task_file_size = NoSize
  /\ probe_size = NoSize
  /\ file_size = 0
  /\ start_pos = 0
  /\ range_start = NoSize
  /\ supports_resume = FALSE
  /\ url_given \in BOOLEAN
  /\ sem_taken = FALSE
  /\ heads = 0
  /\ output_path = "none"
  /\ body = 0
  /\ gets = 0
  /\ result = "none"
  /\ cause = "none"

NextRF ==
  \/ RfStart
  \/ \E accept \in BOOLEAN, cl \in RfSizes : RfHead(accept, cl)
  \/ RfRaises
  \/ \E status \in {200, 206, 403, 416}, n \in RfSizes : RfGet(status, n)
  \/ RfOSError
  \/ \E d \in RfSizes : RfChunk(d)
  \/ RfStreamEnd
  \/ RfCancelled

SpecRF == InitRF /\ [][NextRF]_vars

\* C2: the final destination name only ever receives a staging file that was
\* renamed after its size was verified equal to the probed size: it is never
\* the file a transfer writes to.
C2_FinalOnlyFromVerifiedStaging ==
  (file_path.ex /\ file_path.gen = 1) =>
    (output_path = "partial" /\ cause = "ok" /\ file_path.size = file_size)

\* C3: when a transfer ends in failure, a file that existed under the final
\* name before the call still exists with unchanged content.
C3_FailureKeepsExistingFile ==
  (pc_df = "done" /\ result = "false" /\ file_path0.ex) => file_path = file_path0

\* C4: download_file returns success only with a final file of exactly the
\* probed size; on a size mismatch it returns failure, creates nothing under
\* the final name and leaves the staging file.
C4_SuccessMeansProbedSize ==
  /\ (pc_df = "done" /\ cause \in {"ok", "small_verified"}) =>
       (file_path.ex /\ file_path.size = file_size)
  /\ (pc_df = "done" /\ cause = "mismatch") =>
       (result = "false" /\ file_path = file_path0 /\ partial_path.ex)

\* C5: when the final file exists with the size the metadata probe reports,
\* the task ends in success without a GET request and with the file unchanged.
C5_CompleteFileTransfersNothing ==
  (pc_df = "done" /\ file_path0.ex /\ probe_size = file_path0.size) =>
    (result = "true" /\ gets = 0 /\ file_path = file_path0)

\* C7: after a cancellation mid-stream the staging file with the bytes
\* written so far exists, nothing new is under the final name, and the
\* transfer is not recorded as successful.
C7_CancelMidStreamKeepsStaging ==
  (pc_df = "done" /\ cause = "cancel_stream") =>
    /\ partial_path.ex /\ partial_path.gen = 1
    /\ file_path = file_path0
    /\ result = "cancelled" /\ TaskId \notin completed_downloads

\* the data request of the refactored download_file is in flight or answered
DataRequested == pc_df \in {"rf_get", "rf_stream"} \/ (pc_df = "done" /\ gets > 0)

\* the staging file was cut back by the margin and the request resumed there
ResumedAtMargin ==
  /\ range_start = partial_path0.size - RESUME_SAFETY_MARGIN
  /\ pc_df = "rf_get" => partial_path.size = partial_path0.size - RESUME_SAFETY_MARGIN

\* a byte count different from the declared size ends in failure with the
\* staging file left in place
MismatchKeepsStaging ==
  (pc_df = "done" /\ cause = "mismatch") =>
    (result = "false" /\ partial_path.ex /\ partial_path.size # file_size
       /\ file_path = file_path0)

C11_ReturnsOnlyWhenDrained ==
  [][(waitpc # "returned" /\ waitpc' = "returned") =>
       (unfinished' = 0 /\ \A w \in Workers : ~RunningTransfer(transfer'[w]))]_vars

\* C12: a step of wait_for_downloads never sets the stop flag and never
\* requests the cancellation of a transfer: only stop() does.
C12_WaitingNeverCancels ==
  [][((stop' /\ ~stop) \/ (\E w \in Workers : transfer'[w].cancel /\ ~transfer[w].cancel))
       => stopCalls' > stopCalls]_vars

\* the _consumer_worker tasks that were created and have not returned
RunningWorkers == {w \in Workers : worker[w].pc \notin {"off", "exit"}}

\* C14: at most num_consumers _consumer_worker tasks run, and each of them
\* is held in _consumers.
C14_OnePoolReachedByStop ==
  /\ Cardinality(RunningWorkers) <= num_consumers
  /\ RunningWorkers \subseteq consumers

\* a task of attachment a is queued or held by a worker
Pending(a) ==
  \/ \E k \in 1..Len(queue) : queue[k].id = a
  \/ \E w \in Workers : worker[w].pc \in {"await", "sleep"} /\ worker[w].task.id = a

\* C13: without stop() and with terminating transfer attempts, every task
\* that was added is eventually taken from the queue and finished, and its
\* attachment id is then in completed_downloads or in failed_downloads.
C13_EveryTaskEndsCompletedOrFailed ==
  /\ (unfinished > 0) ~> (unfinished = 0)
  /\ [][\A a \in AttachmentIds :
          (Pending(a) /\ ~Pending(a)') =>
             (a \in completed_downloads' \cup failed_downloads')]_vars

\* both tasks were added and finished, one of them after a cancelled attempt
C13_Witness ==
  /\ addCount = 2 /\ unfinished = 0 /\ queue = <<>>
  /\ gatherTimeouts > 0
  /\ completed_downloads \cup failed_downloads # {}

\* C15: at most API_MAX_CONCURRENT_CALLS requests of the client are sent and
\* not yet answered, whatever the number of get() callers, and the permits
\* of api_calls_semaphore are taken and given back by get() calls only, the
\* permits of the download semaphore by transfers only.
C15_ApiCallsBounded ==
  /\ [](Cardinality(InFlight) <= API_MAX_CONCURRENT_CALLS)
  /\ [][/\ (ApiHolders' # ApiHolders => UNCHANGED <<semCap, transfer>>)
        /\ (InSection' # InSection => UNCHANGED caller)]_vars

\* two requests are in flight, a third caller waits for a permit, and a
\* transfer holds a permit of the download semaphore
C15_Witness ==
  /\ Cardinality(InFlight) = API_MAX_CONCURRENT_CALLS
  /\ \E c \in ApiCallers : caller[c].pc = "sem"
  /\ InSection # {}

\* C16: one get() call sends at most MAX_RETRIES requests, each request after
\* the first follows a 429 response of the same call, and a call whose
\* MAX_RETRIES responses were all 429 ends with the max-retries error and
\* not with data.
C16_AtMostMaxRetriesRequests ==
  \A c \in ApiCallers :
    /\ caller[c].requests <= MAX_RETRIES
    /\ caller[c].requests <= caller[c].retries + 1
    /\ caller[c].retries = MAX_RETRIES =>
         (caller[c].pc = "done" /\ caller[c].outcome = "max_retries")
    /\ caller[c].outcome = "max_retries" =>
         (caller[c].retries = MAX_RETRIES /\ caller[c].requests = MAX_RETRIES)

\* a call has ended after MAX_RETRIES requests that were all answered 429
C16_Witness ==
  \E c \in ApiCallers :
    /\ caller[c].outcome = "max_retries"
    /\ caller[c].requests = MAX_RETRIES

\* the waits of a call without a usable RateLimit-Reset header, by the
\* number of 429 responses it received before
BackoffSeconds == <<20, 60, 180, 540, 1620>>

\* C17: the wait after a 429 response is the value of the RateLimit-Reset
\* header when the header is a decimal number, and otherwise
\* initial_delay * delay_factor^k for k earlier 429 responses of the call:
\* 20, 60, 180, 540, 1620 seconds.
C17_DelayAfter429 ==
  \A c \in ApiCallers :
    caller[c].pc = "sleep" =>
      caller[c].delay = (IF caller[c].reset = <<"1", "2">> THEN 12
                         ELSE BackoffSeconds[caller[c].retries + 1])

\* a call waits the 12 seconds of the header after its second 429, and
\* another waits the 60 seconds of the backoff after its second 429
C17_Witness ==
  /\ \E c \in ApiCallers :
       /\ caller[c].pc = "sleep" /\ caller[c].retries = 1
       /\ caller[c].reset = <<"1", "2">> /\ caller[c].delay = 12
  /\ \E c \in ApiCallers :
       /\ caller[c].pc = "sleep" /\ caller[c].retries = 1
       /\ caller[c].reset = <<"1", ".", "5">> /\ caller[c].delay = 60

\* C18: a get() call whose request raised a connection or timeout error
\* ends in failure only after it sent MAX_RETRIES requests.
C18_NetworkErrorRetried ==
  [][\A c \in ApiCallers :
       (caller[c].pc = "sent" /\ caller'[c].pc = "done") =>
          caller'[c].requests = MAX_RETRIES]_vars

\* C19: a response with a status >= 400 other than 429 ends the call with
\* the HTTP error: no further request, no wait, no data.
C19_HttpErrorNotRetried ==
  [][\A c \in ApiCallers :
       (caller[c].pc = "read" /\ caller[c].status >= 400 /\ caller'[c] # caller[c]) =>
          /\ caller'[c].pc = "done"
          /\ caller'[c].outcome = "http_error"
          /\ caller'[c].requests = caller[c].requests
          /\ caller[c].requests = caller[c].retries + 1]_vars

\* the courses of the pages of log that were fetched, in the order of log
RECURSIVE CoursesOf(_)
CoursesOf(log) ==
  IF log = <<>> THEN <<>>
  ELSE CoursesOf(SubSeq(log, 1, Len(log) - 1)) \o log[Len(log)].courses

\* the server reported for the fetched page r a current page that is not
\* below the number of pages; a count it did not report is 1, a current
\* page it did not report is the page requested
ReportedLast(r) ==
  \/ r.total = NoMeta
  \/ (IF r.cur = NoMeta THEN r.page ELSE r.cur) >= r.total

\* C20: get_all_courses requests the pages 1, 2, 3, ... in order and each
\* once, all_courses holds the courses of the fetched pages in that order,
\* no page is requested after a page that failed or that the server reported
\* as the last, and the call then returns what it collected before.
C20_PagesInOrder ==
  /\ \A i \in 1..Len(fetched) : fetched[i].page = i
  /\ pages_pc = "get" => page = Len(fetched) + 1
  /\ all_courses = CoursesOf(fetched)
  /\ \A i \in 1..Len(fetched) :
       (fetched[i].how # "data" \/ ReportedLast(fetched[i])) =>
          /\ i = Len(fetched)
          /\ pages_pc = (IF fetched[i].how = "malformed" THEN "raised" ELSE "returned")
  /\ \A i \in 1..Len(fetched) : fetched[i].how # "data" => fetched[i].courses = <<>>

\* the third page failed after two pages with courses, and the call
\* returned the courses of the two pages
C20_Witness ==
  /\ pages_pc = "returned"
  /\ Len(fetched) = 3
  /\ fetched[3].how = "client_error"
  /\ all_courses = <<2, 1, 1>>

\* the lectures of section si whose fetch did not fail, in the order of the
\* course
RECURSIVE Kept(_, _)
Kept(ls, si) ==
  IF ls = <<>> THEN <<>>
  ELSE (IF <<si, Head(ls)>> \in failed_lectures THEN <<>> ELSE <<Head(ls)>>)
         \o Kept(Tail(ls), si)

\* C21: a lecture fetch that fails never ends get_course_content, and the
\* course returned holds, for every section, the lectures whose fetch did
\* not fail, in the order of the course.
C21_FailedLectureSkipped ==
  /\ [][content_pc = "lecture" => content_pc' # "raised"]_vars
  /\ [](content_pc = "returned" =>
          /\ Len(lectures_detailed) = Len(sections)
          /\ \A si \in 1..Len(sections) : lectures_detailed[si] = Kept(sections[si], si))

\* the run is over: the queue is drained and no worker holds a task
RunOver ==
  /\ queue = <<>>
  /\ unfinished = 0
  /\ \A w \in Workers :
       /\ worker[w].pc \notin {"new", "await", "sleep"}
       /\ ~RunningTransfer(transfer[w])

\* C22: at the end of a run every attachment id in failed_downloads has an
\* entry in the failures list.
C22_FailedHaveLedgerEntry == RunOver => failed_downloads \subseteq failures

\* C28: at the end of a run every entry of the failures list belongs to an
\* attachment id in failed_downloads, and no attachment id in
\* completed_downloads has an entry.
C28_LedgerOnlyOfFailed ==
  RunOver => (failures \subseteq failed_downloads /\ failures \cap completed_downloads = {})

\* C29: when a worker resumes after a transfer that returned failure, the
\* attachment id is in failed_downloads and in the failures list, and the
\* worker does not wait for a retry or start another transfer of that task:
\* a transfer it starts is of a task it takes from the queue.
C29_OrdinaryFailureNotRetried ==
  [][\A w \in Workers :
       (/\ worker[w].pc = "await"
        /\ transfer[w].pc = "done" /\ transfer[w].res = "fail"
        /\ transfer'[w].pc # "done") =>
          /\ worker[w].task.id \in failed_downloads' \cap failures'
          /\ worker'[w].pc # "sleep"
          /\ worker'[w].pc = "await" => Len(queue') < Len(queue)]_vars

\* C30: a worker starts no transfer for a task it takes from the queue when
\* the attachment id of the task is in completed_downloads or in
\* failed_downloads.
C30_KnownIdsStartNoTransfer ==
  [][\A w \in Workers :
       (/\ worker[w].pc # "sleep"
        /\ transfer[w].pc # "pd_head"
        /\ transfer'[w].pc = "pd_head") =>
          worker'[w].task.id \notin completed_downloads' \cup failed_downloads']_vars

\* C24: the value safe_filename returns contains none of the characters
\* \ / * ? : " < > | and has at most max_length characters.
C24_SafeFilenameIsSafe ==
  name_pc = "done" =>
    /\ \A i \in 1..Len(safe_name) :
         safe_name[i] \notin {"\\", "/", "*", "?", ":", "\"", "<", ">", "|"}
    /\ Len(safe_name) <= max_length

\* a name with a path separator and a quote, longer than max_length, was
\* cut to max_length characters
C24_Witness ==
  /\ name_pc = "done"
  /\ \E i, j \in 1..Len(filename) : filename[i] = "/" /\ filename[j] = "\""
  /\ Len(filename) > max_length
  /\ Len(safe_name) = max_length
  /\ max_length > 0

\* the attachments of the lectures that process_course does not skip, as
\* <<section, lecture, attachment>>
ProcessedAttachments ==
  {id \in (1..MaxSections) \X (1..MaxLectures) \X (1..2) :
     /\ id[1] <= Len(course_arg.tree)
     /\ id[2] <= Len(course_arg.tree[id[1]])
     /\ id[3] <= Len(course_arg.tree[id[1]][id[2]])
     /\ course_arg.module_id \in {NoModule, id[1]}
     /\ course_arg.lecture_id \in {{}, {<<id[1], id[2]>>}}}
\* those whose kind is in the type filter and that have a url
WantedAttachments ==
  {id \in ProcessedAttachments :
     LET a == course_arg.tree[id[1]][id[2]][id[3]]
     IN a.kind \in course_arg.valid_types /\ a.url}
\* the elements of a sequence
Elements(q) == {q[i] : i \in 1..Len(q)}
\* two sections of one lecture with a video and a pdf, types = ["video"]
TwoSectionsVideoOnly ==
  /\ course_arg.tree = <<<<<<Video, Pdf>>>>, <<<<Video, Pdf>>>>>>
  /\ course_arg.valid_types = {"video"}
  /\ course_arg.module_id = NoModule
  /\ course_arg.lecture_id = {}

\* C23 as stated: when process_course has gone through a course outside
\* csv-only mode, the tasks handed to add_task are exactly one per attachment
\* of a processed lecture whose kind is in the filter and that has a url, and
\* the rows are one per attachment of every processed lecture; two sections
\* of one lecture with a video and a pdf give 2 tasks and 4 rows for
\* types = ["video"].
C23_OneTaskPerWantedAttachment ==
  (course_pc = "done" /\ ~course_arg.csv_only) =>
    /\ Elements(download_tasks) = WantedAttachments
    /\ Len(download_tasks) = Cardinality(WantedAttachments)
    /\ Elements(processed_data) = ProcessedAttachments
    /\ Len(processed_data) = Cardinality(ProcessedAttachments)
    /\ TwoSectionsVideoOnly => (Len(download_tasks) = 2 /\ Len(processed_data) = 4)

\* the cover image is downloaded: the course has an image_url, no cover
\* file exists yet and the call is not in csv-only mode
CoverWanted ==
  ~course_arg.csv_only /\ course_arg.image_url /\ ~course_arg.cover_exists

\* C23 amended: the tasks are one per attachment of a processed lecture
\* whose kind is in the filter and that has a url, and before them one task
\* for the cover image when the course has an image_url and no cover file
\* exists; in csv-only mode there is no task.  The rows are one per
\* attachment of every processed lecture in either mode.
C23_TasksAndCover ==
  course_pc = "done" =>
    LET wanted == IF course_arg.csv_only THEN {}
                  ELSE WantedAttachments \cup (IF CoverWanted THEN {CoverTask} ELSE {})
    IN /\ Elements(download_tasks) = wanted
       /\ Len(download_tasks) = Cardinality(wanted)
       /\ CoverWanted => Head(download_tasks) = CoverTask
       /\ Elements(processed_data) = ProcessedAttachments
       /\ Len(processed_data) = Cardinality(ProcessedAttachments)
       /\ (TwoSectionsVideoOnly /\ ~course_arg.csv_only) =>
            /\ Len(download_tasks) = (IF CoverWanted THEN 3 ELSE 2)
            /\ Len(processed_data) = 4

\* the course of two sections with an image_url: the cover and the two
\* videos are queued, four rows are saved
C23_Witness ==
  /\ course_pc = "done"
  /\ TwoSectionsVideoOnly
  /\ CoverWanted
  /\ Len(download_tasks) = 3
  /\ Len(processed_data) = 4

\* C25: a call of download_file with an empty url returns False at once: no
\* HEAD and no GET request is sent, the semaphore is not entered and no file
\* is created, changed or removed.
C25_MissingUrlFailsAtOnce ==
  ~url_given =>
    /\ pc_df \in {"rf_start", "done"}
    /\ pc_df = "done" => (result = "false" /\ cause = "missing_url")
    /\ heads = 0 /\ gets = 0
    /\ ~sem_taken
    /\ file_path = file_path0 /\ partial_path = partial_path0

\* the call without a url has returned, with a staging file in place that a
\* call with a url would have probed
C25_Witness ==
  /\ ~url_given
  /\ pc_df = "done"
  /\ partial_path0.ex
  /\ verify_arg

\* C26: the data request carries a Range header only when a staging file
\* existed, the HEAD answer carried Accept-Ranges, the declared size is
\* above the small-file threshold and the staging file was larger than the
\* safety margin; a data request without Range is sent with no staging file
\* left in place.
C26_RangeOnlyWhenResumable ==
  /\ (DataRequested /\ range_start # NoSize) =>
       /\ partial_path0.ex
       /\ supports_resume
       /\ file_size > SMALL_FILE_THRESHOLD_REFACTOR
       /\ partial_path0.size > RESUME_SAFETY_MARGIN
  /\ (pc_df = "rf_get" /\ range_start = NoSize) => ~partial_path.ex

\* C27: no data request of a call is sent before the call has sent its HEAD
\* request.
C27_ProbeBeforeData == gets > 0 => heads > 0

\* C31: while a transfer is in progress active_downloads maps its attachment
\* id to that transfer's task, and when a worker has recorded the outcome of
\* a transfer and gone on, an entry left for the id is of a transfer in
\* progress.
C31_ActiveMapsRunningTransfers ==
  /\ [](\A w \in Workers :
          RunningTransfer(transfer[w]) => active_downloads[worker[w].task.id] = w)
  /\ [][\A w \in Workers :
          (/\ worker[w].pc = "await"
           /\ transfer[w].pc = "done"
           /\ transfer'[w].pc # "done"
           /\ worker'[w].pc # "sleep") =>
             (active_downloads'[worker[w].task.id] # 0 =>
                Live(active_downloads', transfer', worker', worker[w].task.id))]_vars

\* C32: the step in which current_concurrent returns to the maximum sets
\* consecutive_successes to 0.
C32_RestoreResetsSuccesses ==
  [][(current_concurrent < max_concurrent /\ current_concurrent' = max_concurrent)
       => consecutive_successes' = 0]_vars

\* C33: the step in which a worker resumes after a transfer that returned
\* failure or raised an exception other than a cancellation leaves
\* current_concurrent and the semaphore as they were.
C33_OrdinaryFailureKeepsLimit ==
  [][\A w \in Workers :
       (/\ worker[w].pc = "await"
        /\ transfer[w].pc = "done" /\ transfer[w].res \in {"fail", "exc"}
        /\ transfer'[w].pc # "done") =>
          UNCHANGED <<current_concurrent, semCap>>]_vars

\* C37: whatever limit the manager was constructed with, the number of
\* transfers inside the limiter-guarded section of download_file is at most
\* max_concurrent.
C37_InSectionWithinMaximum == Cardinality(InSection) <= max_concurrent

\* C39: no attachment id is in completed_downloads and in failed_downloads.
C39_CompletedFailedDisjoint == completed_downloads \cap failed_downloads = {}

\* C40: a task is attempted at most max_retries times, an attempt after the
\* first is started only after the attempt before it was cancelled, and when
\* the last attempt allowed is cancelled the id is added to failed_downloads
\* and the queue item is marked done once.
C40_AtMostThreeAttempts ==
  [][\A w \in Workers :
       /\ AttemptStarted(w) => worker'[w].retry < max_retries
       /\ (worker[w].pc = "await" /\ worker'[w].pc = "sleep") =>
            transfer[w].res = "cancelled"
       /\ (/\ worker[w].pc = "await"
           /\ transfer[w].pc = "done"
           /\ transfer'[w].pc # "done"
           /\ worker[w].retry = max_retries - 1
           /\ worker[w].cancel \/ transfer[w].res = "cancelled") =>
             /\ worker[w].task.id \in failed_downloads'
             /\ unfinished' =
                  unfinished - 1 - LeadingFailed(queue, failed_downloads')]_vars

\* C34: once stop() of the API client has been called no get() call sends a
\* request, and a call that was not yet started, was waiting for a permit or
\* was waiting out a 429 ends with the cancellation.
C34_NoRequestAfterStop ==
  [][api_stop =>
       \A c \in ApiCallers :
         /\ caller'[c].requests = caller[c].requests
         /\ (caller[c].pc \in {"idle", "sem", "sleep"} /\ caller'[c].pc = "done") =>
              caller'[c].outcome = "stopped"]_vars

\* C36: once stop() has been called, the wait_for_downloads call that
\* follows it returns.
C36_WaitReturnsAfterStop == stop ~> (waitpc = "returned")

\* permits are asked for and none can be given: every transfer of the
\* refactored manager is suspended in an acquire
AllWaitForPermit ==
  LET busy == {w \in Workers : worker[w].pc = "await"}
  IN /\ busy # {}
     /\ \A w \in busy : transfer[w].pc \in {"w_outer", "w_inner"}

\* C35: the refactored manager reaches no state in which tasks are pending
\* and every worker that holds a task waits for a permit of the limiter.
C35_NoLimiterDeadlock == ~AllWaitForPermit

\* the queue items a worker's step takes, marks done and skips (lines
\* 887-891)
SkippedTasks ==
  IF Len(queue') < Len(queue)
  THEN {queue[i] : i \in 1..LeadingFailed(queue, failed_downloads')}
  ELSE {}

\* C38: a task that a worker skips is a task for a file whose download
\* failed before in this run; a failed download of another file does not
\* make a task skipped.
C38_SkipOnlyFailedFile == [][\A t \in SkippedTasks : t \in failed_tasks']_vars
====
